---- MODULE Spec2Model ----
(***************************************************************************)
(* A model of sdlabs_wrapper: the campaign provisioning state machine      *)
(* (SDLabsWrapper._start_optimization, driven by initialize_optimization), *)
(* the cached configuration (config.init) and the suggestion polling loop  *)
(* (SDLabsWrapper.get_new_suggestions).                                    *)
(*                                                                         *)
(* The remote service (scientia_sdk) is the environment: it keeps          *)
(* workstations, templates, optimizers and campaigns, hands out fresh ids, *)
(* and any call to it may fail.  A failed call has no remote effect.       *)
(* Resources created through the API land in the configured group.         *)
(* One step of the model is one remote call together with the local code   *)
(* that follows it up to the next remote call.                             *)
(***************************************************************************)
EXTENDS Integers, Sequences, FiniteSets, TLC

VARIABLES
    spec_file_content, \* the mapping the caller passes to initialize_optimization
    CFG,               \* config.CFG, the process-wide cached OptimizationConfig
    remote,            \* the state of the remote service
    wrapper,           \* the SDLabsWrapper of the running initialize_optimization
    pc,                \* position of the caller / of _start_optimization
    locals,            \* local variables of _start_optimization
    calls,             \* every remote call issued so far, in order
    results,           \* outcome of every finished initialize_optimization call
    start,             \* the remote state when the last initialize_optimization began
    fetch,             \* local variables of get_new_suggestions / _get_parameters
    fetches,           \* outcome of every finished get_new_suggestions call
    submits,           \* outcome of every finished send_measurements call
    units,             \* the parameter and value a normalizer call is applied to, and its results
    os,                \* the process environment: SDLABS_API_KEY and the configuration files
    inits              \* one record per config.init call, in order

vars == <<spec_file_content, CFG, remote, wrapper, pc, locals, calls, results, start,
          fetch, fetches, submits, units, os, inits>>

----------------------------------------------------------------------------
(* Bounds of the model *)

\* initialize_optimization calls made by the process in SpecRerun
MaxRuns == 2

\* parameters declared by the configuration
MaxParameters == 2

\* campaigns the existing template has when the process starts
MaxCampaigns == 2

\* the largest max_retries a caller passes to get_new_suggestions
MaxRetries == 3

\* records in one response of the latest-parameters endpoint
MaxRecords == 2

\* the smallest decade, 10^-MaxDecade, of a parameter's defining bound
MaxDecade == 6

\* decimals after the leading digit of a value given to the normalizer
MaxDigits == 3

\* calls of config.init a caller makes itself
MaxInits == 2

----------------------------------------------------------------------------
(* Python values *)

\* None, where the code holds an id or a name (no remote id is this string)
None == "None"

\* None, where the code holds an object
NoObj == [none |-> TRUE]

\* an optional bool argument: <<>> is None, <<b>> is the bool b
OptBool == {<<>>, <<TRUE>>, <<FALSE>>}

\* a variant in which an explicit False replaces the bool b
PyOr_Override(a, b) == IF a # <<>> THEN a[1] ELSE b

\* `a or b` for an optional bool a and a bool b
PyOr(a, b) == IF a # <<>> /\ a[1] THEN TRUE ELSE b

\* str() of an int
Str(n) == ToString(n)

\* the sequence of f(s[i])
Map(s, f(_)) == [i \in 1..Len(s) |-> f(s[i])]

\* next(x for x in s if P(x), NoObj)
FirstOr(s, P(_), dflt) ==
    LET m == SelectSeq(s, P) IN IF m = <<>> THEN dflt ELSE m[1]

RECURSIVE Flatten(_)
Flatten(ss) == IF ss = <<>> THEN <<>> ELSE Head(ss) \o Flatten(Tail(ss))

----------------------------------------------------------------------------
(* Numbers: a float is the decimal m * 10^e with no trailing zero in m *)

RECURSIVE Pow10(_)
Pow10(n) == IF n = 0 THEN 1 ELSE 10 * Pow10(n - 1)

Abs(x) == IF x < 0 THEN -x ELSE x

\* the number of decimal digits of the positive integer m
RECURSIVE Digits(_)
Digits(m) == IF m < 10 THEN 1 ELSE 1 + Digits(m \div 10)

RECURSIVE Norm(_)
Norm(d) ==
    IF d.m = 0 THEN [m |-> 0, e |-> 0]
    ELSE IF d.m % 10 = 0 THEN Norm([m |-> d.m \div 10, e |-> d.e + 1])
    ELSE d

Dec(m, e) == Norm([m |-> m, e |-> e])

\* val * 10**k, and val / 10**k for a negative k
Scale10(val, k) == Dec(val.m, val.e + k)

\* round(val, ndigits): to the nearest multiple of 10^-ndigits.  A float is a
\* binary fraction: a decimal lying exactly halfway between two multiples is
\* stored slightly above or below it (or exactly, and then goes to the even
\* neighbour), so round() moves it up or down; `up` is the way it goes
round(val, ndigits, up) ==
    IF val.e >= -ndigits THEN val
    ELSE LET q  == Pow10(-ndigits - val.e)
             lo == val.m \div q
             r  == val.m % q
         IN  Dec(IF 2 * r > q \/ (2 * r = q /\ up) THEN lo + 1 ELSE lo, -ndigits)

\* str(x) of a float, and float(s) of such a string
StrOf(x) == [str |-> x]
Float(s) == s.str

\* `a or b` where a is a float or None
OrNumber(a, b) == IF a = NoObj \/ a.m = 0 THEN b ELSE a

----------------------------------------------------------------------------
(* models.Parameter *)

\* floor(log10(abs(number)))
find_exp(number) == Digits(Abs(number.m)) - 1 + number.e

\* the exponent below which a parameter is rescaled
ScaleThreshold == -4

\* None, where the code holds an exponent (abs() yields no negative number)
NoExponent == -1

\* a normalizer that rescales every bound smaller than 1
base_10_exponent_Negative(prm) ==
    IF prm.type = "categorical" THEN NoExponent
    ELSE LET exp_val == find_exp(OrNumber(prm.low_value, OrNumber(prm.stride, prm.high_value)))
         IN  IF exp_val < 0 THEN Abs(exp_val) ELSE NoExponent

\* Parameter._base_10_exponent
base_10_exponent(prm) ==
    IF prm.type = "categorical" THEN NoExponent
    ELSE LET exp_val == find_exp(OrNumber(prm.low_value, OrNumber(prm.stride, prm.high_value)))
         IN  IF exp_val < ScaleThreshold THEN Abs(exp_val) ELSE NoExponent

\* `not self._base_10_exponent`: None and 0 alike
NotExponent(k) == k = NoExponent \/ k = 0

\* a conversion that rounds to two decimals whether or not it rescales
rescale_units_to_sdlabs_Rounds(prm, val, up) ==
    IF prm.type = "categorical" THEN val
    ELSE IF NotExponent(base_10_exponent(prm)) THEN round(val, 2, up)
    ELSE round(Scale10(val, base_10_exponent(prm)), 2, up)

\* Parameter.rescale_units_to_sdlabs(val)
rescale_units_to_sdlabs(prm, val, up) ==
    IF prm.type = "categorical" THEN val
    ELSE IF NotExponent(base_10_exponent(prm)) THEN val
    ELSE round(Scale10(val, base_10_exponent(prm)), 2, up)

\* a conversion back that keeps one decimal less
rescale_units_to_user_Coarse(prm, val, up) ==
    IF prm.type = "categorical" THEN val
    ELSE IF NotExponent(base_10_exponent(prm)) THEN val
    ELSE round(Scale10(val, -base_10_exponent(prm)), base_10_exponent(prm) + 1, up)

\* Parameter.rescale_units_to_user(val); val is a float, which float(val)
\* leaves as it is
rescale_units_to_user(prm, val, up) ==
    IF prm.type = "categorical" THEN val
    ELSE IF NotExponent(base_10_exponent(prm)) THEN val
    ELSE round(Scale10(val, -base_10_exponent(prm)), base_10_exponent(prm) + 2, up)

format_sdlabs_description(prm) ==
    IF ~NotExponent(base_10_exponent(prm))
    THEN " in base units * 10^(-" \o ToString(base_10_exponent(prm)) \o ")"
    ELSE None

\* no normalizer call was made
NoUnits == [prm |-> NoObj, val |-> NoObj, val_up |-> FALSE, done |-> {}]

\* a <= b for two floats; zero is compared by the sign of the other
Leq(a, b) ==
    IF a.m = 0 THEN 0 <= b.m
    ELSE IF b.m = 0 THEN a.m <= 0
    ELSE LET c == IF a.e < b.e THEN a.e ELSE b.e
         IN  a.m * Pow10(a.e - c) <= b.m * Pow10(b.e - c)

\* the parameter's range holds val; a bound that is None bounds nothing
InRange(prm, val) ==
    /\ prm.low_value # NoObj => Leq(prm.low_value, val)
    /\ prm.high_value # NoObj => Leq(val, prm.high_value)

\* the ways a parameter of decade d (its defining bound b has
\* floor(log10(|b|)) = d) may declare b: as low_value, as stride under a low
\* value of 0 or of None, as high_value alone
ParametersOfDecade(d, m) ==
    LET b  == Dec(m, d - (Digits(Abs(m)) - 1))
        b9 == Dec(10 * Abs(m), d - (Digits(Abs(m)) - 1))
    IN { [name |-> "x", type |-> "continuous", low_value |-> b, stride |-> NoObj, high_value |-> b9],
         [name |-> "x", type |-> "discrete", low_value |-> Dec(0, 0), stride |-> b, high_value |-> b9],
         [name |-> "x", type |-> "discrete", low_value |-> NoObj, stride |-> b, high_value |-> b9],
         [name |-> "x", type |-> "continuous", low_value |-> NoObj, stride |-> NoObj, high_value |-> b] }

\* the leading digits of a defining bound
BoundMantissas == {1, 25, -3}

\* values of decade d with g decimals after the leading digit, some of them
\* halfway between two multiples of the rounding step
ValuesOfDecade(d, g) ==
    { Dec(n, d - g) : n \in {Pow10(g), Pow10(g) + 5, 3 * Pow10(g) + 15, 9 * Pow10(g) + 5} }

CategoricalParameter ==
    [name |-> "x", type |-> "categorical", low_value |-> NoObj, stride |-> NoObj, high_value |-> NoObj]

\* the option values the normalizer is applied to, of a categorical parameter
CategoricalInputs == { [prm |-> CategoricalParameter, val |-> v] : v \in {"a", "b"} }

\* the numeric parameters and values the normalizer is applied to
UnitInputs ==
    UNION { { [prm |-> prm, val |-> v] :
                prm \in ParametersOfDecade(d, m), v \in UNION {ValuesOfDecade(d, g) : g \in 0..MaxDigits} }
            : d \in (-MaxDecade)..1, m \in BoundMantissas }

\* Parameter._base_10_exponent is read
BaseExponent ==
    /\ "exponent" \notin units.done
    /\ units' = [units EXCEPT !.done = @ \cup {"exponent"}] @@
                 [exponent |-> base_10_exponent(units.prm)]
    /\ UNCHANGED <<inits, os, submits, fetch, fetches, start, spec_file_content, CFG, remote, wrapper,
                   locals, pc, calls, results>>

\* Parameter.rescale_units_to_sdlabs(val)
RescaleUnitsToSdlabs ==
    /\ "sdlabs" \notin units.done
    /\ \E up \in BOOLEAN :
         units' = [units EXCEPT !.done = @ \cup {"sdlabs"}] @@
                  [sdlabs |-> rescale_units_to_sdlabs(units.prm, units.val, up)]
    /\ UNCHANGED <<inits, os, submits, fetch, fetches, start, spec_file_content, CFG, remote, wrapper,
                   locals, pc, calls, results>>

\* Parameter.rescale_units_to_user(val)
RescaleUnitsToUser ==
    /\ "user" \notin units.done
    /\ \E up \in BOOLEAN :
         units' = [units EXCEPT !.done = @ \cup {"user"}] @@
                  [user |-> rescale_units_to_user(units.prm, units.val, up)]
    /\ UNCHANGED <<inits, os, submits, fetch, fetches, start, spec_file_content, CFG, remote, wrapper,
                   locals, pc, calls, results>>

\* Parameter.rescale_units_to_user(Parameter.rescale_units_to_sdlabs(val))
RoundTrip ==
    /\ "sdlabs" \in units.done
    /\ "back" \notin units.done
    /\ \E up \in BOOLEAN :
         units' = [units EXCEPT !.done = @ \cup {"back"}] @@
                  [back |-> rescale_units_to_user(units.prm, units.sdlabs, up)]
    /\ UNCHANGED <<inits, os, submits, fetch, fetches, start, spec_file_content, CFG, remote, wrapper,
                   locals, pc, calls, results>>

----------------------------------------------------------------------------
(* The configuration *)

DefaultGroup == "Atinary"
OptimizationName == "SampleOptimization"

\* the parameters of the configuration
\* the i-th parameter a configuration declares: a continuous one over
\* [0.001, 0.01], a continuous one over [5, 50], categorical ones after that
ParameterOf(i) ==
    [ name       |-> "p" \o ToString(i),
      type       |-> IF i <= 2 THEN "continuous" ELSE "categorical",
      low_value  |-> IF i = 1 THEN Dec(1, -3) ELSE IF i = 2 THEN Dec(5, 0) ELSE NoObj,
      high_value |-> IF i = 1 THEN Dec(1, -2) ELSE IF i = 2 THEN Dec(5, 1) ELSE NoObj,
      stride     |-> NoObj ]

ConfigParameters == [i \in 1..MaxParameters |-> ParameterOf(i)]

\* a continuous parameter over [0.00001, 0.0001], which the wrapper rescales
ScaledParameter ==
    [ name |-> "p1", type |-> "continuous",
      low_value |-> Dec(1, -5), high_value |-> Dec(1, -4), stride |-> NoObj ]

ParameterLists == {ConfigParameters, [ConfigParameters EXCEPT ![1] = ScaledParameter]}

\* the objective lists a configuration may declare (one or two objectives)
ObjectiveLists ==
    { <<[name |-> "yield", _id |-> None]>>,
      <<[name |-> "yield", _id |-> None], [name |-> "cost", _id |-> None]>>,
      <<[name |-> "yield", _id |-> None,
         multi_objective_configuration |-> [hierarchy |-> 0, relative |-> Dec(10, 0)]],
        [name |-> "cost", _id |-> None,
         multi_objective_configuration |-> [hierarchy |-> 1, absolute |-> Dec(1, 0)]]>> }

\* isinstance(x, str) of a bound, and str(x): a string is left as it is
IsStr(x) == "str" \in DOMAIN x
PyStr(x) == IF IsStr(x) THEN x ELSE StrOf(x)

\* isinstance(x, dict) of a constraint definition: a mapping, not yet a
\* ConstraintDefinition
IsDict(x) == "dataclass" \notin DOMAIN x

\* ConstraintDefinition(**mapping) and its __post_init__: every bound is cast
\* to a string (bounds that are None read as an empty list)
ConstraintDefinition(mapping) ==
    [ dataclass |-> "ConstraintDefinition",
      parameter |-> mapping.parameter,
      bounds    |-> IF "bounds" \in DOMAIN mapping
                    THEN [i \in DOMAIN mapping.bounds |->
                            [j \in DOMAIN mapping.bounds[i] |-> PyStr(mapping.bounds[i][j])]]
                    ELSE <<>>,
      weight    |-> IF "weight" \in DOMAIN mapping THEN mapping.weight ELSE NoObj ]

\* the constraint lists a configuration may declare: none, one constraint over
\* p1 and p2, one constraint whose second definition names no parameter
ConstraintLists ==
    { <<>>,
      <<[name |-> "linear_eq", definitions |->
            <<[parameter |-> "p1", bounds |-> <<<<Dec(1, -3), StrOf(Dec(5, -3))>>>>], [parameter |-> "p2"]>>]>>,
      <<[name |-> "linear_eq", definitions |->
            <<[parameter |-> "p1", bounds |-> <<<<Dec(1, -3), StrOf(Dec(5, -3))>>>>], [parameter |-> "zz"]>>]>> }

\* the definition lists of a constraint a caller may build: mappings with
\* numeric and string bounds, ConstraintDefinition entities, and both
DefinitionLists ==
    LET d1 == [parameter |-> "p1", bounds |-> <<<<Dec(1, -3), Dec(5, -3)>>>>]
        d2 == [parameter |-> "p2", bounds |-> <<<<StrOf(Dec(5, 0)), Dec(2, 1)>>>>]
    IN  { <<d1, d2>>,
          <<ConstraintDefinition(d1), ConstraintDefinition(d2)>>,
          <<ConstraintDefinition(d1), d2>>,
          <<d1, ConstraintDefinition(d2)>> }

Budgets == {3, 5}

\* the mappings a caller may pass as spec_file_content
SpecFileContents ==
    [ optimization_name : {OptimizationName},
      sdlabs_group_id   : {DefaultGroup},
      parameters        : ParameterLists,
      objectives        : ObjectiveLists,
      constraints       : ConstraintLists,
      algorithm         : {"EDBOplus"},
      budget            : Budgets,
      batch_size        : {2},
      random_seed       : {7},
      always_restart    : BOOLEAN,
      inherit_data      : BOOLEAN ]

\* the configuration a caller of config.init holds: one of budget 3 with one
\* objective and no constraint
BaseContent ==
    [ optimization_name |-> OptimizationName,
      sdlabs_group_id   |-> DefaultGroup,
      parameters        |-> ConfigParameters,
      objectives        |-> <<[name |-> "yield", _id |-> None]>>,
      constraints       |-> <<>>,
      algorithm         |-> "EDBOplus",
      budget            |-> 3,
      batch_size        |-> 2,
      random_seed       |-> 7,
      always_restart    |-> FALSE,
      inherit_data      |-> FALSE ]

\* the multi_objective_configuration mappings an objective may carry: both
\* tolerances, one of them, none of them
MofConfigurations ==
    { [relative |-> Dec(10, 0), absolute |-> Dec(1, 0)],
      [relative |-> Dec(10, 0)],
      [absolute |-> Dec(1, 0)],
      [hierarchy |-> 0] }

\* the mappings a caller may hold, each differing from BaseContent in one entry
ConfigContents ==
    {BaseContent}
    \cup { ("api_key" :> k) @@ BaseContent : k \in {None, "key-file"} }
    \cup { [BaseContent EXCEPT !.batch_size = b] : b \in {0, 20, 50} }
    \cup { [BaseContent EXCEPT !.parameters[1].type = "foo"] }
    \cup { [BaseContent EXCEPT !.constraints = <<[type |-> t, definitions |-> <<[parameter |-> "p1"]>>]>>]
              : t \in {"linear_lte", "bar"} }
    \cup { [BaseContent EXCEPT !.constraints = <<[type |-> "linear_eq", definitions |-> ds]>>]
              : ds \in DefinitionLists }
    \cup { [BaseContent EXCEPT !.objectives =
              <<[name |-> "yield", _id |-> None, multi_objective_configuration |-> moc]>>]
              : moc \in MofConfigurations }
    \cup { ("sdlabs_account_type" :> a) @@ BaseContent : a \in {"enterprise", "gold"} }

\* config.DEFAULT_CONFIG_PATH, and the path of the file a caller may name
DEFAULT_CONFIG_PATH == "config/optimization_config.json"
ConfigPath == "cfg.json"

\* the api_key arguments a caller may pass
ApiKeys == {None, "key-arg"}

\* the names of models.AccountType and of models.Environment
AccountTypes == {"enterprise", "academic"}
Environments == {"com", "network", "dev"}

\* a process without SDLABS_API_KEY and without a configuration file; every
\* file in `files` holds `content`
BareOs == [environ |-> [SDLABS_API_KEY |-> None], files |-> {}, content |-> NoObj]

\* the processes a configuration may be built in: the file, when there is
\* one, holds the mapping of the caller or the base configuration
Oss(content) ==
    [ environ : [SDLABS_API_KEY : {None, "key-env"}],
      files   : {{}, {ConfigPath}},
      content : {content, BaseContent} ]

\* config.CFG before the first build
NoCFG == NoObj

\* a construction that ended with the given exception
Failed(error) == [error |-> error]
IsFailed(x) == "error" \in DOMAIN x

\* mapping.get(key, dflt)
Get(mapping, key, dflt) == IF key \in DOMAIN mapping THEN mapping[key] ELSE dflt

\* the defaults of the dataclass fields of OptimizationConfig (a list that is
\* None reads as an empty one)
FieldDefaults ==
    [ parameters |-> <<>>, objectives |-> <<>>, optimization_name |-> OptimizationName,
      api_key |-> None, sdlabs_group_id |-> DefaultGroup,
      sdlabs_account_type |-> "academic", sdlabs_environment |-> "com",
      constraints |-> <<>>, algorithm |-> "edboplus", batch_size |-> 1, budget |-> 20,
      random_seed |-> 2022, always_restart |-> FALSE, inherit_data |-> FALSE ]

\* Parameter(**prm): the fields are kept as given
Parameter(prm) == prm

\* MultiObjectiveConfiguration(**mapping): __post_init__ does nothing
MultiObjectiveConfiguration(mapping) ==
    [ hierarchy |-> Get(mapping, "hierarchy", 0),
      relative  |-> Get(mapping, "relative", NoObj),
      absolute  |-> Get(mapping, "absolute", NoObj),
      weight    |-> Get(mapping, "weight", NoObj) ]

\* Objective(**obj) and its __post_init__
Objective(obj) ==
    LET moc == Get(obj, "multi_objective_configuration", NoObj)
    IN  [ name |-> obj.name,
          _id  |-> Get(obj, "_id", None),
          multi_objective_configuration |->
              IF moc = NoObj THEN NoObj ELSE MultiObjectiveConfiguration(moc) ]

\* Constraint(**cstr) and its __post_init__: the name defaults to the type
Constraint(cstr) ==
    LET type == Get(cstr, "type", "linear_eq")
        name == Get(cstr, "name", None)
    IN  [ name        |-> IF name = None THEN type ELSE name,
          type        |-> type,
          definitions |-> IF cstr.definitions # <<>> /\ IsDict(cstr.definitions[1])
                          THEN Map(cstr.definitions, ConstraintDefinition)
                          ELSE cstr.definitions ]

\* ConstraintDefinition(**cstr) of an entry that is no mapping ends the
\* construction of the constraint with a TypeError
ConstraintFails(cstr) ==
    /\ cstr.definitions # <<>> /\ IsDict(cstr.definitions[1])
    /\ \E n \in DOMAIN cstr.definitions : ~IsDict(cstr.definitions[n])

\* OptimizationConfig.__post_init__ of an instance that holds its fields
PostInit(self, env) ==
    IF \E n \in DOMAIN self.constraints : ConstraintFails(self.constraints[n]) THEN Failed("TypeError")
    ELSE IF self.sdlabs_account_type \notin AccountTypes THEN Failed("KeyError")
    ELSE IF self.sdlabs_environment \notin Environments THEN Failed("KeyError")
    ELSE [self EXCEPT !.parameters  = Map(@, Parameter),
                      !.objectives  = Map(@, Objective),
                      !.constraints = Map(@, Constraint),
                      !.api_key     = IF @ = None THEN env.environ.SDLABS_API_KEY ELSE @]

\* OptimizationConfig(spec_file_path=, input_content=, api_key=) in the
\* process env: the instance, or the exception the construction ends with
OptimizationConfig(spec_file_path, input_content, api_key, env) ==
    LET json_obj == IF input_content # NoObj THEN input_content
                    ELSE IF spec_file_path = None THEN NoObj
                    ELSE IF spec_file_path \in env.files THEN env.content
                    ELSE Failed("FileNotFoundError")
    IN  IF IsFailed(json_obj) THEN json_obj
        ELSE IF json_obj # NoObj
        THEN PostInit(json_obj @@ [api_key |-> api_key] @@ FieldDefaults, env)
        ELSE PostInit([api_key |-> api_key] @@ FieldDefaults, env)

\* a config.init that builds on every call
init_Rebuild(cached, config_path, config_dict, api_key, env) ==
    OptimizationConfig(IF config_dict # NoObj THEN None
                       ELSE IF config_path = None THEN DEFAULT_CONFIG_PATH ELSE config_path,
                       config_dict, api_key, env)

\* config.init: build on the first call only, return the cached instance
\* after; an exception of the build leaves the function, and CFG as it was
init(cached, config_path, config_dict, api_key, env) ==
    IF cached # NoCFG THEN cached
    ELSE OptimizationConfig(IF config_dict # NoObj THEN None
                            ELSE IF config_path = None THEN DEFAULT_CONFIG_PATH ELSE config_path,
                            config_dict, api_key, env)

\* the record of one config.init call: its arguments, config.CFG before and
\* after it, and what it returned or raised
InitCall(config_path, config_dict, api_key, cached, ret) ==
    [ config_path |-> config_path, config_dict |-> config_dict, api_key |-> api_key,
      cached |-> cached, ret |-> ret, after |-> IF IsFailed(ret) THEN cached ELSE ret ]

\* a variant that leaves in config.CFG what a failed build left behind
ConfigInit_KeepsFailure ==
    /\ pc \in {"idle", "done", "raised"}
    /\ Len(inits) < MaxInits
    /\ \E config_path \in {None, ConfigPath}, config_dict \in {NoObj, spec_file_content},
          api_key \in ApiKeys :
         LET cfg == init(CFG, config_path, config_dict, api_key, os) IN
           /\ inits' = Append(inits, InitCall(config_path, config_dict, api_key, CFG, cfg))
           /\ CFG' = cfg
    /\ UNCHANGED <<os, units, submits, fetch, fetches, start, spec_file_content, remote,
                   wrapper, locals, pc, calls, results>>

\* the caller calls config.init
ConfigInit ==
    /\ pc \in {"idle", "done", "raised"}
    /\ Len(inits) < MaxInits
    /\ \E config_path \in {None, ConfigPath}, config_dict \in {NoObj, spec_file_content},
          api_key \in ApiKeys :
         LET cfg == init(CFG, config_path, config_dict, api_key, os) IN
           /\ inits' = Append(inits, InitCall(config_path, config_dict, api_key, CFG, cfg))
           /\ CFG' = IF IsFailed(cfg) THEN CFG ELSE cfg
    /\ UNCHANGED <<os, units, submits, fetch, fetches, start, spec_file_content, remote,
                   wrapper, locals, pc, calls, results>>

----------------------------------------------------------------------------
(* The remote service *)

OtherGroup == "OtherGroup"

\* a workstation of another name and one of another group, always listed first
DecoyWorkstations ==
    << [id |-> "wst-other", name |-> "Other", group |-> DefaultGroup, parameters |-> <<>>],
       [id |-> "wst-group", name |-> OptimizationName, group |-> OtherGroup, parameters |-> <<>>] >>

ExistingWorkstation ==
    [id |-> "wst-1", name |-> OptimizationName, group |-> DefaultGroup,
     parameters |-> [i \in 1..MaxParameters |->
                       [id |-> "prm-" \o ToString(i), name |-> ConfigParameters[i].name]]]

InitialWorkstations == {DecoyWorkstations, Append(DecoyWorkstations, ExistingWorkstation)}

\* a template of another name and one of another group, always listed first
DecoyTemplates ==
    << [id |-> "tpl-other", name |-> "Other Optimization Template", group |-> DefaultGroup, budget |-> 3,
        optimizer |-> "opt-other", objectives |-> <<[id |-> "obj-other", name |-> "yield"]>>,
        multi_objective_function |-> None, constraints |-> <<>>,
        parameters |-> <<[level |-> 1, parameters |-> <<>>]>>],
       [id |-> "tpl-group", name |-> "SampleOptimization Optimization Template", group |-> OtherGroup, budget |-> 3,
        optimizer |-> "opt-other", objectives |-> <<[id |-> "obj-other", name |-> "yield"]>>,
        multi_objective_function |-> None, constraints |-> <<>>,
        parameters |-> <<[level |-> 1, parameters |-> <<>>]>>] >>

\* the template an earlier provisioning of OptimizationName left behind
ExistingTemplate(budget) ==
    [id |-> "tpl-1", name |-> "SampleOptimization Optimization Template", group |-> DefaultGroup,
     budget |-> budget, optimizer |-> "opt-1",
     objectives |-> <<[id |-> "obj-1", name |-> "yield"]>>,
     multi_objective_function |-> None, constraints |-> <<>>,
     parameters |-> <<[level |-> 1, parameters |->
                        [i \in 1..MaxParameters |->
                           [parameter_id |-> "cpy-" \o ToString(i), workstation_id |-> "wst-1"]]]>>]

\* a configuration entry of an optimizer
Conf(key, value) == [key |-> key, value |-> value]

\* the optimizer configurations the existing template's optimizer may hold:
\* the configured values, or other values and an entry of another key
ExistingOptimizerConfigurations ==
    { <<Conf("batch_size", "2"), Conf("random_seed", "7")>>,
      <<Conf("batch_size", "1"), Conf("acquisition", "ei"), Conf("random_seed", "2022")>> }

DecoyOptimizer == [id |-> "opt-other", configuration |-> <<Conf("batch_size", "9")>>]

\* a running campaign of another template, always present
DecoyCampaigns == <<[id |-> "cpg-other", template_id |-> "tpl-other", state |-> "running"]>>

CampaignStates == {"running", "stopped"}

\* the campaigns the existing template may have: up to MaxCampaigns, each
\* running or stopped
ExistingCampaigns ==
    UNION { { [i \in 1..n |-> [id |-> "cpg-" \o ToString(i), template_id |-> "tpl-1",
                               state |-> st[i]]] : st \in [1..n -> CampaignStates] }
            : n \in 0..MaxCampaigns }

\* the states the remote service may be in when the process starts
InitialRemotes ==
    { [wsts |-> w, tpls |-> DecoyTemplates, opts |-> ("opt-other" :> DecoyOptimizer),
       cpgs |-> DecoyCampaigns, next_id |-> 1] : w \in InitialWorkstations }
    \cup
    { [wsts |-> w, tpls |-> Append(DecoyTemplates, ExistingTemplate(b)),
       opts |-> ("opt-other" :> DecoyOptimizer) @@ ("opt-1" :> [id |-> "opt-1", configuration |-> c]),
       cpgs |-> DecoyCampaigns \o g, next_id |-> 1] :
         w \in InitialWorkstations, b \in Budgets,
         c \in ExistingOptimizerConfigurations, g \in ExistingCampaigns }

----------------------------------------------------------------------------
(* SDLabsWrapper and _start_optimization *)

\* the id the remote service gives the next resource it creates
FreshId == ToString(remote.next_id)

\* no get_new_suggestions call is in progress
NoFetch == [max_retries |-> 0, sleep_time_s |-> 0, retry |-> 0, slept |-> 0]

\* SDLabsWrapper.__post_init__: a handle with no campaign id
NewWrapper == [_campaign_id |-> None, workstation |-> NoObj, template |-> NoObj]

NoLocals ==
    [ wst_params |-> <<>>, template_id |-> None, tpl_params |-> <<>>, opt_id |-> None,
      objectives |-> <<>>,
      obj_kwargs |-> [objective |-> None, multi_objective_function |-> None],
      sdlabs_constraints |-> <<>>, stops |-> <<>>, workstation_id |-> None ]

\* the record of one remote call: its operation, payload, success and what it
\* returned (the id of the object, or the entries of campaigns_state)
Call(op, arg, ok, ret) ==
    [run |-> Len(results) + 1, op |-> op, arg |-> arg, ok |-> ok, ret |-> ret]

\* initialize_optimization ends with an exception: no handle is returned
Raised(error) == [outcome |-> "raised", error |-> error, _campaign_id |-> None]

\* initialize_optimization returns the wrapper
Returned(handle) == [outcome |-> "returned", error |-> None, _campaign_id |-> handle._campaign_id]

\* a failed call that is swallowed: the run goes on and issues the call again
Raise_Retry(op, arg) ==
    /\ calls' = Append(calls, Call(op, arg, FALSE, None))
    /\ UNCHANGED <<inits, os, units, submits, fetch, fetches, start, spec_file_content, CFG, remote, wrapper, locals, pc, results>>

\* a remote call fails: the exception leaves _start_optimization and
\* initialize_optimization, which returns nothing
Raise(op, arg) ==
    /\ calls' = Append(calls, Call(op, arg, FALSE, None))
    /\ pc' = "raised"
    /\ results' = Append(results, Raised("remote"))
    /\ UNCHANGED <<inits, os, units, submits, fetch, fetches, start, spec_file_content, CFG, remote, wrapper, locals>>

\* initialize_optimization up to the first remote call
InitializeOptimization(api_key, spec_file_path, content, inherit_data, always_restart) ==
    /\ pc \in {"idle", "done", "raised"}
    /\ LET cfg == init(CFG, spec_file_path, content, api_key, os) IN
         /\ inits' = Append(inits, InitCall(spec_file_path, content, api_key, CFG, cfg))
         /\ IF IsFailed(cfg)
            THEN /\ results' = Append(results, Raised(cfg.error))
                 /\ pc' = "raised"
                 /\ UNCHANGED <<CFG, wrapper, locals, start>>
            ELSE /\ CFG' = [cfg EXCEPT !.inherit_data = PyOr(inherit_data, cfg.inherit_data),
                                       !.always_restart = PyOr(always_restart, cfg.always_restart)]
                 /\ wrapper' = NewWrapper
                 /\ locals' = NoLocals
                 /\ pc' = "workstations_list"
                 /\ start' = remote
                 /\ UNCHANGED results
    /\ UNCHANGED <<os, units, submits, fetch, fetches, spec_file_content, remote, calls>>

\* wst_api.workstations_list and the lookup by name
WorkstationsList ==
    /\ pc = "workstations_list"
    /\ \E ok \in BOOLEAN :
         IF ~ok THEN Raise("workstations_list", CFG.sdlabs_group_id)
         ELSE
           LET wsts == SelectSeq(remote.wsts, LAMBDA w : w.group = CFG.sdlabs_group_id)
               workstation == FirstOr(wsts, LAMBDA w : w.name = CFG.optimization_name, NoObj)
           IN /\ calls' = Append(calls, Call("workstations_list", CFG.sdlabs_group_id, TRUE, None))
              /\ IF workstation # NoObj
                 THEN /\ locals' = [locals EXCEPT !.workstation_id = workstation.id]
                      /\ pc' = "workstation_get"
                 ELSE /\ locals' = locals
                      /\ pc' = IF CFG.parameters = <<>> THEN "workstation_create"
                                                          ELSE "parameter_create"
              /\ UNCHANGED <<inits, os, units, submits, fetch, fetches, start, spec_file_content, CFG, remote, wrapper, results>>

\* wst_api.workstation_get
WorkstationGet ==
    /\ pc = "workstation_get"
    /\ \E ok \in BOOLEAN :
         IF ~ok THEN Raise("workstation_get", locals.workstation_id)
         ELSE
           LET object == FirstOr(remote.wsts, LAMBDA w : w.id = locals.workstation_id, NoObj)
           IN /\ calls' = Append(calls, Call("workstation_get", locals.workstation_id, TRUE, object.id))
              /\ wrapper' = [wrapper EXCEPT !.workstation = object]
              /\ pc' = "templates_list"
              /\ UNCHANGED <<inits, os, units, submits, fetch, fetches, start, spec_file_content, CFG, remote, locals, results>>

\* a payload that carries the configured bounds as they are
ParameterObj_Unscaled(prm, up) ==
    [ name        |-> prm.name,
      type        |-> prm.type,
      description |-> format_sdlabs_description(prm),
      low_value   |-> prm.low_value,
      high_value  |-> prm.high_value,
      stride      |-> IF OrNumber(prm.stride, NoObj) # NoObj THEN prm.stride ELSE NoObj ]

\* the payload of parameter_create for one configured parameter
ParameterObj(prm, up) ==
    [ name        |-> prm.name,
      type        |-> prm.type,
      description |-> format_sdlabs_description(prm),
      low_value   |-> rescale_units_to_sdlabs(prm, prm.low_value, up),
      high_value  |-> rescale_units_to_sdlabs(prm, prm.high_value, up),
      stride      |-> IF OrNumber(prm.stride, NoObj) # NoObj
                      THEN rescale_units_to_sdlabs(prm, prm.stride, up) ELSE NoObj ]

\* prm_api.parameter_create, once per configured parameter, in order
ParameterCreate ==
    /\ pc = "parameter_create"
    /\ \E ok \in BOOLEAN, up \in BOOLEAN :
       LET prm == ParameterObj(CFG.parameters[Len(locals.wst_params) + 1], up) IN
         IF ~ok THEN Raise("parameter_create", prm)
         ELSE
           LET object == [id |-> FreshId, name |-> prm.name]
               wst_params == Append(locals.wst_params, object)
           IN /\ calls' = Append(calls, Call("parameter_create", prm, TRUE, object.id))
              /\ remote' = [remote EXCEPT !.next_id = @ + 1]
              /\ locals' = [locals EXCEPT !.wst_params = wst_params]
              /\ pc' = IF Len(wst_params) = Len(CFG.parameters)
                       THEN "workstation_create" ELSE "parameter_create"
              /\ UNCHANGED <<inits, os, units, submits, fetch, fetches, start, spec_file_content, CFG, wrapper, results>>

\* a workstation declared without measurements
WorkstationObj_NoMeasurements ==
    [ name |-> CFG.optimization_name,
      measurements |-> <<>>,
      parameters |-> Map(locals.wst_params, LAMBDA p : p.id) ]

\* the payload of workstation_create
WorkstationObj ==
    [ name |-> CFG.optimization_name,
      measurements |-> Map(CFG.objectives, LAMBDA obj : obj.name),
      parameters |-> Map(locals.wst_params, LAMBDA p : p.id) ]

\* wst_api.workstation_create
WorkstationCreate ==
    /\ pc = "workstation_create"
    /\ \E ok \in BOOLEAN :
         IF ~ok THEN Raise("workstation_create", WorkstationObj)
         ELSE
           LET object == [id |-> FreshId, name |-> WorkstationObj.name,
                          group |-> CFG.sdlabs_group_id,
                          parameters |-> locals.wst_params]
           IN /\ calls' = Append(calls, Call("workstation_create", WorkstationObj, TRUE, object.id))
              /\ remote' = [remote EXCEPT !.next_id = @ + 1, !.wsts = Append(@, object)]
              /\ wrapper' = [wrapper EXCEPT !.workstation = object]
              /\ pc' = "templates_list"
              /\ UNCHANGED <<inits, os, units, submits, fetch, fetches, start, spec_file_content, CFG, locals, results>>

\* a template name that drops a word
TemplateName_Short(workstation_name) == workstation_name \o " Template"

\* f"{self.workstation.name} Optimization Template"
TemplateName(workstation_name) == workstation_name \o " Optimization Template"

\* tpl_api.templates_list and the lookup by name
TemplatesList ==
    /\ pc = "templates_list"
    /\ \E ok \in BOOLEAN :
         IF ~ok THEN Raise("templates_list", CFG.sdlabs_group_id)
         ELSE
           LET tpls == SelectSeq(remote.tpls, LAMBDA t : t.group = CFG.sdlabs_group_id)
               tpl == FirstOr(tpls, LAMBDA t : t.name = TemplateName(wrapper.workstation.name), NoObj)
               template_id == IF tpl = NoObj THEN None ELSE tpl.id
           IN /\ calls' = Append(calls, Call("templates_list", CFG.sdlabs_group_id, TRUE, None))
              /\ locals' = [locals EXCEPT !.template_id = template_id]
              /\ pc' = IF template_id # None THEN "template_get"
                       ELSE IF wrapper.workstation.parameters # <<>> THEN "parameter_copy"
                       ELSE "optimizer_create"
              /\ UNCHANGED <<inits, os, units, submits, fetch, fetches, start, spec_file_content, CFG, remote, wrapper, results>>

\* the object template_get returns: the template with its optimizer expanded
TemplateObject(template_id) ==
    LET tpl == FirstOr(remote.tpls, LAMBDA t : t.id = template_id, NoObj)
    IN [tpl EXCEPT !.optimizer = remote.opts[tpl.optimizer]]

\* an update only when the configured budget is the larger one
BudgetDiffers_Greater(cfg, template) == cfg.budget > template.budget

\* `self.config.budget != self.template.budget`
BudgetDiffers(cfg, template) == cfg.budget # template.budget

\* tpl_api.template_get; the budget of the fetched object is set when it differs
TemplateGet ==
    /\ pc = "template_get"
    /\ \E ok \in BOOLEAN :
         IF ~ok THEN Raise("template_get", locals.template_id)
         ELSE
           LET template == TemplateObject(locals.template_id)
           IN /\ calls' = Append(calls, Call("template_get", locals.template_id, TRUE, template.id))
              /\ IF BudgetDiffers(CFG, template)
                 THEN /\ wrapper' = [wrapper EXCEPT !.template = [template EXCEPT !.budget = CFG.budget]]
                      /\ pc' = "template_update"
                 ELSE /\ wrapper' = [wrapper EXCEPT !.template = template]
                      /\ pc' = "optimizer_update"
              /\ UNCHANGED <<inits, os, units, submits, fetch, fetches, start, spec_file_content, CFG, remote, locals, results>>

\* tpl_obj: the fetched template with its sub-resources replaced by their ids
TemplateUpdateObj(template) ==
    [ name |-> template.name,
      budget |-> template.budget,
      constraints |-> template.constraints,
      parameters |-> template.parameters,
      objective |-> template.objectives[1].id,
      optimizer |-> template.optimizer.id,
      multi_objective_function |-> template.multi_objective_function ]

\* tpl_api.template_update
TemplateUpdate ==
    /\ pc = "template_update"
    /\ LET tpl_obj == TemplateUpdateObj(wrapper.template)
           arg == [template_id |-> locals.template_id, template_obj |-> tpl_obj]
       IN \E ok \in BOOLEAN :
         IF ~ok THEN Raise("template_update", arg)
         ELSE
           /\ calls' = Append(calls, Call("template_update", arg, TRUE, None))
           /\ remote' = [remote EXCEPT !.tpls =
                 Map(@, LAMBDA t : IF t.id = locals.template_id
                                   THEN [t EXCEPT !.budget = tpl_obj.budget] ELSE t)]
           /\ pc' = "optimizer_update"
           /\ UNCHANGED <<inits, os, units, submits, fetch, fetches, start, spec_file_content, CFG, wrapper, locals, results>>

\* a loop that sets batch_size only
UpdatedConf_BatchOnly(cfg, conf) ==
    IF conf.key = "batch_size" THEN [conf EXCEPT !.value = Str(cfg[conf.key])] ELSE conf

\* the entry of opt_object.configuration after the loop over it
UpdatedConf(cfg, conf) ==
    IF conf.key \in {"batch_size", "random_seed"}
    THEN [conf EXCEPT !.value = Str(cfg[conf.key])]
    ELSE conf

\* opt_object: the template's optimizer with batch_size and random_seed set
OptimizerUpdateObj(cfg, optimizer) ==
    [optimizer EXCEPT !.configuration = Map(@, LAMBDA conf : UpdatedConf(cfg, conf))]

\* opt_api.optimizer_update, whatever the remote values are
OptimizerUpdate ==
    /\ pc = "optimizer_update"
    /\ LET optimizer == wrapper.template.optimizer
           opt_object == OptimizerUpdateObj(CFG, optimizer)
           arg == [optimizer_id |-> optimizer.id, opt_obj |-> opt_object]
       IN \E ok \in BOOLEAN :
         IF ~ok THEN Raise("optimizer_update", arg)
         ELSE
           /\ calls' = Append(calls, Call("optimizer_update", arg, TRUE, None))
           /\ remote' = [remote EXCEPT !.opts[optimizer.id] = opt_object]
           /\ pc' = "campaigns_state"
           /\ UNCHANGED <<inits, os, units, submits, fetch, fetches, start, spec_file_content, CFG, wrapper, locals, results>>

\* prm_api.parameter_copy, once per parameter of the workstation, in order
ParameterCopy ==
    /\ pc = "parameter_copy"
    /\ LET prm == wrapper.workstation.parameters[Len(locals.tpl_params) + 1]
           arg == [parameter_id |-> prm.id, name |-> prm.name]
       IN \E ok \in BOOLEAN :
         IF ~ok THEN Raise("parameter_copy", arg)
         ELSE
           LET object == [id |-> FreshId, name |-> prm.name]
               tpl_params == Append(locals.tpl_params, object)
           IN /\ calls' = Append(calls, Call("parameter_copy", arg, TRUE, object.id))
              /\ remote' = [remote EXCEPT !.next_id = @ + 1]
              /\ locals' = [locals EXCEPT !.tpl_params = tpl_params]
              /\ pc' = IF Len(tpl_params) = Len(wrapper.workstation.parameters)
                       THEN "optimizer_create" ELSE "parameter_copy"
              /\ UNCHANGED <<inits, os, units, submits, fetch, fetches, start, spec_file_content, CFG, wrapper, results>>

\* str.lower() of the algorithm names in use
Lower(s) == IF s = "EDBOplus" THEN "edboplus" ELSE s

\* the payload of optimizer_create
OptimizerCreateObj(cfg) ==
    [ configuration |-> << Conf("batch_size", Str(cfg.batch_size)),
                           Conf("random_seed", Str(cfg.random_seed)) >>,
      function |-> Lower(cfg.algorithm),
      name |-> cfg.sdlabs_group_id \o "-" \o cfg.algorithm ]

\* opt_api.optimizer_create
OptimizerCreate ==
    /\ pc = "optimizer_create"
    /\ LET opt_obj == OptimizerCreateObj(CFG) IN
       \E ok \in BOOLEAN :
         IF ~ok THEN Raise("optimizer_create", opt_obj)
         ELSE
           /\ calls' = Append(calls, Call("optimizer_create", opt_obj, TRUE, FreshId))
           /\ remote' = [remote EXCEPT
                 !.next_id = @ + 1,
                 !.opts = (FreshId :> [id |-> FreshId, configuration |-> opt_obj.configuration]) @@ @]
           /\ locals' = [locals EXCEPT !.opt_id = FreshId]
           /\ pc' = "objective_create"
           /\ UNCHANGED <<inits, os, units, submits, fetch, fetches, start, spec_file_content, CFG, wrapper, results>>

\* a variant that takes the first template parameter whatever its name
TemplateParameter_First(tpl_params, name) ==
    IF tpl_params = <<>> THEN NoObj ELSE tpl_params[1]

\* next(prm.id for prm in tpl_params if prm.name == name): NoObj is StopIteration
TemplateParameter(tpl_params, name) ==
    FirstOr(tpl_params, LAMBDA prm : prm.name = name, NoObj)

\* the loop over constraint.definitions: each parameter name is replaced in
\* place by the id of the template parameter, up to the first name not found
RECURSIVE RemapDefinitions(_, _)
RemapDefinitions(definitions, tpl_params) ==
    IF definitions = <<>> THEN [ok |-> TRUE, definitions |-> <<>>]
    ELSE LET prm == TemplateParameter(tpl_params, Head(definitions).parameter) IN
         IF prm = NoObj THEN [ok |-> FALSE, definitions |-> definitions]
         ELSE LET rest == RemapDefinitions(Tail(definitions), tpl_params) IN
              [ok |-> rest.ok,
               definitions |-> <<[Head(definitions) EXCEPT !.parameter = prm.id]>> \o rest.definitions]

\* the loop over self.config.constraints
RECURSIVE RemapConstraints(_, _)
RemapConstraints(constraints, tpl_params) ==
    IF constraints = <<>> THEN [ok |-> TRUE, constraints |-> <<>>]
    ELSE LET head == RemapDefinitions(Head(constraints).definitions, tpl_params)
             first == [Head(constraints) EXCEPT !.definitions = head.definitions]
         IN IF ~head.ok THEN [ok |-> FALSE, constraints |-> <<first>> \o Tail(constraints)]
            ELSE LET rest == RemapConstraints(Tail(constraints), tpl_params) IN
                 [ok |-> rest.ok, constraints |-> <<first>> \o rest.constraints]

\* the local code between the objectives and the next remote call: with
\* constraints configured, their definitions are remapped in the configuration
\* itself, and a name that is not found ends the run with StopIteration
AfterObjectives(cfg, tpl_params) ==
    IF cfg.constraints = <<>>
    THEN /\ CFG' = cfg
         /\ pc' = "template_create"
         /\ results' = results
    ELSE LET remap == RemapConstraints(cfg.constraints, tpl_params) IN
         /\ CFG' = [cfg EXCEPT !.constraints = remap.constraints]
         /\ IF remap.ok
            THEN /\ pc' = "constraint_create_many"
                 /\ results' = results
            ELSE /\ pc' = "raised"
                 /\ results' = Append(results, Raised("StopIteration"))

\* the payload of objective_create for one configured objective
ObjectiveObj(obj) == [name |-> obj.name]

\* a variant that gives every configured objective the id of the first created one
WithObjectiveIds_First(cfg, objectives) ==
    [cfg EXCEPT !.objectives = Map(@, LAMBDA obj : [obj EXCEPT !._id = objectives[1].id])]

\* obj._id = next(o.id for o in objectives if o.name == obj.name), for every
\* configured objective
WithObjectiveIds(cfg, objectives) ==
    [cfg EXCEPT !.objectives =
        Map(@, LAMBDA obj :
               [obj EXCEPT !._id = FirstOr(objectives, LAMBDA o : o.name = obj.name, NoObj).id])]

\* obj.multi_objective_configuration.to_dict() of every configured objective:
\* one that holds None ends the run with AttributeError
MofConfigured(cfg) ==
    \A n \in DOMAIN cfg.objectives : cfg.objectives[n].multi_objective_configuration # NoObj

\* obj_api.objective_create, once per configured objective, in order
ObjectiveCreate ==
    /\ pc = "objective_create"
    /\ LET objective_obj == ObjectiveObj(CFG.objectives[Len(locals.objectives) + 1]) IN
       \E ok \in BOOLEAN :
         IF ~ok THEN Raise("objective_create", objective_obj)
         ELSE
           LET object == [id |-> FreshId, name |-> objective_obj.name]
               objectives == Append(locals.objectives, object)
           IN /\ calls' = Append(calls, Call("objective_create", objective_obj, TRUE, object.id))
              /\ remote' = [remote EXCEPT !.next_id = @ + 1]
              /\ IF Len(objectives) < Len(CFG.objectives)
                 THEN /\ locals' = [locals EXCEPT !.objectives = objectives]
                      /\ pc' = "objective_create"
                      /\ UNCHANGED <<CFG, results>>
                 ELSE IF Len(objectives) = 1
                 THEN /\ locals' = [locals EXCEPT !.objectives = objectives,
                                                   !.obj_kwargs.objective = objectives[1].id]
                      /\ AfterObjectives(CFG, locals.tpl_params)
                 ELSE /\ locals' = [locals EXCEPT !.objectives = objectives]
                      /\ CFG' = WithObjectiveIds(CFG, objectives)
                      /\ IF MofConfigured(CFG)
                         THEN /\ pc' = "mof_create"
                              /\ results' = results
                         ELSE /\ pc' = "raised"
                              /\ results' = Append(results, Raised("AttributeError"))
              /\ UNCHANGED <<inits, os, units, submits, fetch, fetches, start, spec_file_content, wrapper>>

\* the payload of mof_create
MofObj(cfg) ==
    [ configuration |->
        Map(cfg.objectives, LAMBDA obj :
              [ objective_id |-> obj._id,
                hierarchy    |-> obj.multi_objective_configuration.hierarchy,
                relative     |-> obj.multi_objective_configuration.relative,
                absolute     |-> obj.multi_objective_configuration.absolute,
                weight       |-> obj.multi_objective_configuration.weight ]) ]

\* mof_api.mof_create
MofCreate ==
    /\ pc = "mof_create"
    /\ \E ok \in BOOLEAN :
         IF ~ok THEN Raise("mof_create", MofObj(CFG))
         ELSE
           /\ calls' = Append(calls, Call("mof_create", MofObj(CFG), TRUE, FreshId))
           /\ remote' = [remote EXCEPT !.next_id = @ + 1]
           /\ locals' = [locals EXCEPT !.obj_kwargs.multi_objective_function = FreshId]
           /\ AfterObjectives(CFG, locals.tpl_params)
           /\ UNCHANGED <<inits, os, units, submits, fetch, fetches, start, spec_file_content, wrapper>>

\* the ids the remote service gives n resources created by one call
FreshIds(n) == [i \in 1..n |-> ToString(remote.next_id + i - 1)]

\* constraints_api.constraint_create_many: one call for all constraints
ConstraintCreateMany ==
    /\ pc = "constraint_create_many"
    /\ \E ok \in BOOLEAN :
         IF ~ok THEN Raise("constraint_create_many", CFG.constraints)
         ELSE
           /\ calls' = Append(calls, Call("constraint_create_many", CFG.constraints, TRUE, None))
           /\ remote' = [remote EXCEPT !.next_id = @ + Len(CFG.constraints)]
           /\ locals' = [locals EXCEPT !.sdlabs_constraints = FreshIds(Len(CFG.constraints))]
           /\ pc' = "template_create"
           /\ UNCHANGED <<inits, os, units, submits, fetch, fetches, start, spec_file_content, CFG, wrapper, results>>

\* the payload of template_create
TemplateCreateObj ==
    [ budget |-> CFG.budget,
      optimizer |-> locals.opt_id,
      name |-> TemplateName(wrapper.workstation.name),
      objective |-> locals.obj_kwargs.objective,
      multi_objective_function |-> locals.obj_kwargs.multi_objective_function,
      parameters |-> << [level |-> 1,
                         parameters |-> Map(locals.tpl_params, LAMBDA prm :
                             [parameter_id |-> prm.id,
                              workstation_id |-> wrapper.workstation.id])] >>,
      constraints |-> locals.sdlabs_constraints ]

\* tpl_api.template_create
TemplateCreate ==
    /\ pc = "template_create"
    /\ \E ok \in BOOLEAN :
         IF ~ok THEN Raise("template_create", TemplateCreateObj)
         ELSE
           LET tpl == [id |-> FreshId, name |-> TemplateCreateObj.name,
                       group |-> CFG.sdlabs_group_id, budget |-> TemplateCreateObj.budget,
                       optimizer |-> TemplateCreateObj.optimizer,
                       objectives |-> locals.objectives,
                       multi_objective_function |-> TemplateCreateObj.multi_objective_function,
                       constraints |-> TemplateCreateObj.constraints,
                       parameters |-> TemplateCreateObj.parameters]
           IN /\ calls' = Append(calls, Call("template_create", TemplateCreateObj, TRUE, tpl.id))
              /\ remote' = [remote EXCEPT !.next_id = @ + 1, !.tpls = Append(@, tpl)]
              /\ wrapper' = [wrapper EXCEPT !.template =
                                [tpl EXCEPT !.optimizer = remote.opts[tpl.optimizer]]]
              /\ pc' = "campaigns_state"
              /\ UNCHANGED <<inits, os, units, submits, fetch, fetches, start, spec_file_content, CFG, locals, results>>

\* the campaigns of one template, as the remote service holds them
TemplateCampaigns(template_id) ==
    SelectSeq(remote.cpgs, LAMBDA cpg : cpg.template_id = template_id)

\* a campaigns_state response with one entry per state that has campaigns
ByState(cpgs) ==
    SelectSeq(Map(<<"running", "stopped">>, LAMBDA st :
                    [state |-> st, campaigns |-> SelectSeq(cpgs, LAMBDA cpg : cpg.state = st)]),
              LAMBDA entry : entry.campaigns # <<>>)

\* a campaigns_state response with one entry per campaign
ByCampaign(cpgs) == Map(cpgs, LAMBDA cpg : [state |-> cpg.state, campaigns |-> <<cpg>>])

\* the responses campaigns_state may give for a template
StateResponses(template_id) ==
    {ByState(TemplateCampaigns(template_id)), ByCampaign(TemplateCampaigns(template_id))}

RunningEntries(states) == SelectSeq(states, LAMBDA cpg_state : cpg_state.state = "running")

\* an adoption that does not look at the state of the entry
AdoptedCampaign_AnyState(cfg, states) ==
    IF cfg.always_restart \/ states = <<>> THEN None
    ELSE states[Len(states)].campaigns[1].id

\* a run that never adopts a running campaign
AdoptedCampaign_Never(cfg, states) == None

\* self._campaign_id after the loop over states: without always_restart every
\* running entry assigns the id of its first campaign, so the last one stays
AdoptedCampaign(cfg, states) ==
    IF cfg.always_restart \/ RunningEntries(states) = <<>> THEN None
    ELSE RunningEntries(states)[Len(RunningEntries(states))].campaigns[1].id

\* a loop that stops the first campaign of every running entry only
CampaignsToStop_First(cfg, states) ==
    IF cfg.always_restart
    THEN Map(RunningEntries(states), LAMBDA cpg_state : cpg_state.campaigns[1].id)
    ELSE <<>>

\* the campaigns the loop over states stops, in order: with always_restart,
\* every campaign of every running entry
CampaignsToStop(cfg, states) ==
    IF cfg.always_restart
    THEN Flatten(Map(RunningEntries(states), LAMBDA cpg_state :
                        Map(cpg_state.campaigns, LAMBDA cpg : cpg.id)))
    ELSE <<>>

\* a run that returns the wrapper without launching
LaunchOrReturn_NoLaunch(handle) ==
    /\ pc' = "done"
    /\ results' = Append(results, Returned(handle))

\* `if not self._campaign_id`: launch a campaign, or return the wrapper
LaunchOrReturn(handle) ==
    IF handle._campaign_id = None
    THEN /\ pc' = "template_run"
         /\ results' = results
    ELSE /\ pc' = "done"
         /\ results' = Append(results, Returned(handle))

\* cpg_api.campaigns_state and the loop over its entries up to the first stop
CampaignsState ==
    /\ pc = "campaigns_state"
    /\ \E ok \in BOOLEAN :
         IF ~ok THEN Raise("campaigns_state", wrapper.template.id)
         ELSE
           \E states \in StateResponses(wrapper.template.id) :
             LET handle == [wrapper EXCEPT !._campaign_id = AdoptedCampaign(CFG, states)]
                 stops == CampaignsToStop(CFG, states)
             IN /\ calls' = Append(calls, Call("campaigns_state", wrapper.template.id, TRUE, states))
                /\ wrapper' = handle
                /\ locals' = [locals EXCEPT !.stops = stops]
                /\ IF stops # <<>>
                   THEN /\ pc' = "campaign_operation"
                        /\ results' = results
                   ELSE LaunchOrReturn(handle)
                /\ UNCHANGED <<inits, os, units, submits, fetch, fetches, start, spec_file_content, CFG, remote>>

\* cpg_api.campaign_operation(stop) on the next running campaign
CampaignOperation ==
    /\ pc = "campaign_operation"
    /\ LET arg == [campaign_id |-> Head(locals.stops), operation |-> "stop"] IN
       \E ok \in BOOLEAN :
         IF ~ok THEN Raise("campaign_operation", arg)
         ELSE
           /\ calls' = Append(calls, Call("campaign_operation", arg, TRUE, None))
           /\ remote' = [remote EXCEPT !.cpgs =
                 Map(@, LAMBDA cpg : IF cpg.id = arg.campaign_id
                                     THEN [cpg EXCEPT !.state = "stopped"] ELSE cpg)]
           /\ locals' = [locals EXCEPT !.stops = Tail(@)]
           /\ IF Tail(locals.stops) # <<>>
              THEN /\ pc' = "campaign_operation"
                   /\ results' = results
              ELSE LaunchOrReturn(wrapper)
           /\ UNCHANGED <<inits, os, units, submits, fetch, fetches, start, spec_file_content, CFG, wrapper>>

\* a launch that always preloads
TemplateRunObj_Preload(cfg) == [preload_data |-> TRUE]

\* the payload of template_run
TemplateRunObj(cfg) == [preload_data |-> cfg.inherit_data]

\* tpl_api.template_run: the launched campaign becomes the handle's campaign
TemplateRun ==
    /\ pc = "template_run"
    /\ LET arg == [template_id |-> wrapper.template.id,
                   template_run_obj |-> TemplateRunObj(CFG)] IN
       \E ok \in BOOLEAN :
         IF ~ok THEN Raise("template_run", arg)
         ELSE
           LET handle == [wrapper EXCEPT !._campaign_id = FreshId] IN
           /\ calls' = Append(calls, Call("template_run", arg, TRUE, FreshId))
           /\ remote' = [remote EXCEPT
                 !.next_id = @ + 1,
                 !.cpgs = Append(@, [id |-> FreshId, template_id |-> arg.template_id,
                                     state |-> "running"])]
           /\ wrapper' = handle
           /\ pc' = "done"
           /\ results' = Append(results, Returned(handle))
           /\ UNCHANGED <<inits, os, units, submits, fetch, fetches, start, spec_file_content, CFG, locals>>

----------------------------------------------------------------------------
(* get_new_suggestions *)

\* the value the service suggests for a parameter in record i, in its own units
SuggestedValue(prm, i) ==
    IF prm.type = "categorical" THEN "c" \o ToString(i)
    ELSE LET k   == base_10_exponent(prm)
             low == IF NotExponent(k) THEN prm.low_value ELSE Scale10(prm.low_value, k)
         IN  StrOf(Dec(low.m * 100 + i, low.e - 2))

\* the i-th record (LatestObservationsObj) the service may hand out: one value
\* for every configured parameter, no measurement yet
Observation(cfg, i) ==
    [ id           |-> "obs-" \o ToString(i),
      iteration    |-> 1,
      batch_number |-> i - 1,
      parameters   |-> Map(cfg.parameters, LAMBDA prm : [name |-> prm.name, value |-> SuggestedValue(prm, i)]),
      measurements |-> Map(cfg.objectives, LAMBDA obj : [name |-> obj.name, value |-> NoObj]) ]

\* the orders in which the service may list the records of a set
RECURSIVE Orders(_)
Orders(S) ==
    IF S = {} THEN {<<>>}
    ELSE UNION {{<<i>> \o o : o \in Orders(S \ {i})} : i \in S}

\* the non-empty responses of latest_parameters(...).objects
NonEmptyResponses(cfg) ==
    { Map(o, LAMBDA i : Observation(cfg, i)) :
        o \in UNION {Orders(S) : S \in (SUBSET (1..MaxRecords)) \ {{}}} }

\* {prm.name: Parameter(**prm.to_dict()) for prm in self.config.parameters}
ParameterMap(cfg) ==
    [name \in {cfg.parameters[i].name : i \in DOMAIN cfg.parameters} |->
        FirstOr(cfg.parameters, LAMBDA prm : prm.name = name, NoObj)]

\* the value of the entry of the given name in a list of name/value objects
ValueOf(entries, name) == FirstOr(entries, LAMBDA x : x.name = name, NoObj).value

\* models.Recommendation(_obs_obj, _parameter_map).__post_init__
Recommendation(obs_obj, parameter_map, up) ==
    [ _obs_obj       |-> obs_obj,
      _parameter_map |-> parameter_map,
      param_values |->
          [name \in {obs_obj.parameters[i].name : i \in DOMAIN obs_obj.parameters} |->
              LET param == parameter_map[name]
                  value == ValueOf(obs_obj.parameters, name)
              IN  IF param.type = "categorical" THEN value
                  ELSE rescale_units_to_user(param, Float(value), up)],
      measurements |->
          [name \in {obs_obj.measurements[i].name : i \in DOMAIN obs_obj.measurements} |->
              LET value == ValueOf(obs_obj.measurements, name)
              IN  IF value # NoObj THEN Float(value) ELSE NoObj] ]

\* the recommendations _get_parameters builds from a response
Recommendations(cfg, latest_parameters, up) ==
    Map(latest_parameters, LAMBDA prm_obj : Recommendation(prm_obj, ParameterMap(cfg), up))

\* the record of one latest_parameters call
Poll(ok, ret) ==
    [run |-> Len(fetches) + 1, op |-> "latest_parameters",
     arg |-> <<wrapper._campaign_id>>, ok |-> ok, ret |-> ret]

\* the outcome of a get_new_suggestions call whose local variables are f
FetchOutcome(f, outcome, error, recommendations) ==
    [ max_retries |-> f.max_retries, sleep_time_s |-> f.sleep_time_s, slept |-> f.slept,
      outcome |-> outcome, error |-> error, recommendations |-> recommendations ]

\* what get_new_suggestions does with the list _get_parameters returns
GetNewSuggestionsEnd(f, sdlabs_recommendations) ==
    IF sdlabs_recommendations = <<>>
    THEN FetchOutcome(f, "raised", "ValueError: no recommendations", <<>>)
    ELSE FetchOutcome(f, "returned", None, sdlabs_recommendations)

\* the loop polls once more than range(max_retries) allows
PollsAgain_OneMore(retry, max_retries) == retry <= max_retries

\* for retry in range(max_retries): whether a pass follows `retry` passes
PollsAgain(retry, max_retries) == retry < max_retries

\* the guard is never taken
NotInitialized_Never(handle) == FALSE

\* `if not self._campaign_id`
NotInitialized(handle) == handle._campaign_id = None

\* get_new_suggestions up to the first remote call
GetNewSuggestions(max_retries, sleep_time_s) ==
    /\ pc = "ready"
    /\ LET f == [max_retries |-> max_retries, sleep_time_s |-> sleep_time_s,
                 retry |-> 0, slept |-> 0]
       IN IF NotInitialized(wrapper)
          THEN /\ fetches' = Append(fetches, FetchOutcome(f, "raised", "ValueError: not initialized", <<>>))
               /\ UNCHANGED <<fetch, pc>>
          ELSE IF PollsAgain(0, max_retries)
          THEN /\ fetch' = f
               /\ pc' = "latest_parameters"
               /\ UNCHANGED fetches
          ELSE /\ fetches' = Append(fetches, GetNewSuggestionsEnd(f, <<>>))
               /\ UNCHANGED <<fetch, pc>>
    /\ UNCHANGED <<inits, os, units, submits, start, spec_file_content, CFG, remote, wrapper, locals, calls, results>>

\* wst_api.latest_parameters, one pass of the loop of _get_parameters
LatestParameters ==
    /\ pc = "latest_parameters"
    /\ \E ok \in BOOLEAN :
         IF ~ok
         THEN /\ calls' = Append(calls, Poll(FALSE, <<>>))
              /\ fetches' = Append(fetches, FetchOutcome(fetch, "raised", "remote", <<>>))
              /\ fetch' = NoFetch
              /\ pc' = "ready"
         ELSE
           \E latest_parameters \in {<<>>} \cup NonEmptyResponses(CFG), up \in BOOLEAN :
             /\ calls' = Append(calls, Poll(TRUE, latest_parameters))
             /\ IF latest_parameters # <<>>
                THEN /\ fetches' = Append(fetches,
                            GetNewSuggestionsEnd(fetch, Recommendations(CFG, latest_parameters, up)))
                     /\ fetch' = NoFetch
                     /\ pc' = "ready"
                ELSE LET slept == [fetch EXCEPT !.retry = @ + 1, !.slept = @ + fetch.sleep_time_s]
                     IN IF PollsAgain(slept.retry, slept.max_retries)
                        THEN /\ fetch' = slept
                             /\ UNCHANGED <<fetches, pc>>
                        ELSE /\ fetches' = Append(fetches,
                                    GetNewSuggestionsEnd(slept, <<>>))
                             /\ fetch' = NoFetch
                             /\ pc' = "ready"
    /\ UNCHANGED <<inits, os, units, submits, start, spec_file_content, CFG, remote, wrapper, locals, results>>

----------------------------------------------------------------------------
(* send_measurements *)

\* the values a caller measures for an objective; NoObj: left as fetched
MeasuredValues == {NoObj, Dec(42, -1)}

\* a recommendation after the caller stored the measurement m for every objective
Measured(rec, m) ==
    IF m = NoObj THEN rec
    ELSE [rec EXCEPT !.measurements = [name \in DOMAIN rec.measurements |-> m]]

\* the lists a caller may pass to send_measurements: none, or the
\* recommendations of a response with the measurements filled in
CompletedRecommendations(cfg) ==
    {<<>>} \cup
    { Map(Recommendations(cfg, latest_parameters, up), LAMBDA rec : Measured(rec, m)) :
        latest_parameters \in NonEmptyResponses(cfg), up \in BOOLEAN, m \in MeasuredValues }

\* a variant that writes the values back as the caller holds them
latest_observation_obj_User(rec, up) ==
    [ rec._obs_obj EXCEPT
        !.parameters = Map(@, LAMBDA prm_val_obj :
            LET param == rec._parameter_map[prm_val_obj.name]
                value == rec.param_values[prm_val_obj.name]
            IN  [prm_val_obj EXCEPT !.value =
                    IF param.type = "categorical" THEN value ELSE StrOf(value)]),
        !.measurements = Map(@, LAMBDA msr_val_obj :
            [msr_val_obj EXCEPT !.value = StrOf(rec.measurements[msr_val_obj.name])]) ]

\* Recommendation.latest_observation_obj: the record with the values written back
latest_observation_obj(rec, up) ==
    [ rec._obs_obj EXCEPT
        !.parameters = Map(@, LAMBDA prm_val_obj :
            LET param == rec._parameter_map[prm_val_obj.name]
                value == rec.param_values[prm_val_obj.name]
            IN  [prm_val_obj EXCEPT !.value =
                    IF param.type = "categorical" THEN value
                    ELSE StrOf(rescale_units_to_sdlabs(param, value, up))]),
        !.measurements = Map(@, LAMBDA msr_val_obj :
            [msr_val_obj EXCEPT !.value = StrOf(rec.measurements[msr_val_obj.name])]) ]

\* sct.ObservationStatus: OK, or a status the service rejects an item with
ObservationStatuses == {"ok", "error"}

\* the result collections the service may answer a batch with: one entry per
\* submitted record, in order, each with its own status
MeasurementResults(observations) ==
    { [i \in DOMAIN observations |-> [id |-> observations[i].id, status |-> st[i]]] :
        st \in [DOMAIN observations -> ObservationStatuses] }

\* the record of one latest_measurements call
Submission(arg, ok, ret) ==
    [run |-> Len(submits) + 1, op |-> "latest_measurements", arg |-> arg, ok |-> ok, ret |-> ret]

\* a rejected item aborts the batch
SendMeasurementsEnd_RaiseOnRejected(completed_recommendations, result) ==
    IF \E i \in DOMAIN result : result[i].status # "ok"
    THEN [ given |-> Map(completed_recommendations, LAMBDA rec : rec._obs_obj.id),
           outcome |-> "raised", error |-> "rejected", result |-> <<>> ]
    ELSE [ given |-> Map(completed_recommendations, LAMBDA rec : rec._obs_obj.id),
           outcome |-> "returned", error |-> None, result |-> result ]

\* send_measurements after the call: every status is logged, the result returned
SendMeasurementsEnd(completed_recommendations, result) ==
    [ given |-> Map(completed_recommendations, LAMBDA rec : rec._obs_obj.id),
      outcome |-> "returned", error |-> None, result |-> result ]

\* send_measurements: wst_api.latest_measurements with the whole list
SendMeasurements(completed_recommendations) ==
    /\ pc = "ready"
    /\ \E ok \in BOOLEAN, up \in BOOLEAN :
         LET observations == Map(completed_recommendations,
                                 LAMBDA rec : latest_observation_obj(rec, up))
         IN IF ~ok
            THEN /\ calls' = Append(calls, Submission(observations, FALSE, <<>>))
                 /\ submits' = Append(submits,
                        [ given |-> Map(completed_recommendations, LAMBDA rec : rec._obs_obj.id),
                          outcome |-> "raised", error |-> "remote", result |-> <<>> ])
            ELSE \E result \in MeasurementResults(observations) :
                 /\ calls' = Append(calls, Submission(observations, TRUE, result))
                 /\ submits' = Append(submits, SendMeasurementsEnd(completed_recommendations, result))
    /\ UNCHANGED <<inits, os, units, fetch, fetches, start, spec_file_content, CFG, remote, wrapper, locals, pc, results>>

----------------------------------------------------------------------------
(* Specifications *)

\* the contents the runs start from: the rescaled parameter comes with budget 3
\* and no flag, two objectives that nothing combines come without constraints
StartContents ==
    { c \in SpecFileContents :
        /\ c.parameters # ConfigParameters =>
              c.budget = 3 /\ ~c.always_restart /\ ~c.inherit_data
        /\ (Len(c.objectives) > 1 /\ c.constraints # <<>>) =>
              \A n \in DOMAIN c.objectives :
                 "multi_objective_configuration" \in DOMAIN c.objectives[n] }

Init ==
    /\ spec_file_content \in StartContents
    /\ CFG = NoCFG
    /\ remote \in InitialRemotes
    /\ wrapper = NoObj
    /\ pc = "idle"
    /\ locals = NoLocals
    /\ calls = <<>>
    /\ results = <<>>
    /\ start = remote
    /\ fetch = NoFetch
    /\ fetches = <<>>
    /\ inits = <<>>
    /\ os = BareOs
    /\ units = NoUnits
    /\ submits = <<>>

\* the caller calls initialize_optimization, at most n times in all
Start(n) ==
    /\ Len(results) < n
    /\ \E inherit_data \in OptBool, always_restart \in OptBool :
         InitializeOptimization(None, None, spec_file_content, inherit_data, always_restart)

\* one remote call of _start_optimization
Step ==
    \/ WorkstationsList \/ WorkstationGet \/ ParameterCreate \/ WorkstationCreate
    \/ TemplatesList \/ TemplateGet \/ TemplateUpdate \/ OptimizerUpdate
    \/ ParameterCopy \/ OptimizerCreate \/ ObjectiveCreate \/ MofCreate
    \/ ConstraintCreateMany \/ TemplateCreate
    \/ CampaignsState \/ CampaignOperation \/ TemplateRun

Next == Start(1) \/ Step

\* one call of initialize_optimization, against any initial remote state
Spec == Init /\ [][Next]_vars

\* the initial states of SpecRerun: a fresh remote service, or one that holds the
\* workstation and the template, whose budget differs from the configured one,
\* with at most one campaign;
\* the objectives are one, or two that a multi-objective function combines,
\* without constraints;
\* the flags are left to the arguments of initialize_optimization
InitRerun ==
    /\ Init
    /\ spec_file_content.budget = 3
    /\ spec_file_content.parameters = ConfigParameters
    /\ \/ Len(spec_file_content.objectives) = 1
       \/ /\ spec_file_content.constraints = <<>>
          /\ \A n \in DOMAIN spec_file_content.objectives :
                "multi_objective_configuration" \in DOMAIN spec_file_content.objectives[n]
    /\ ~spec_file_content.inherit_data /\ ~spec_file_content.always_restart
    /\ \/ Len(remote.tpls) = Len(DecoyTemplates) /\ Len(remote.wsts) = Len(DecoyWorkstations)
       \/ /\ Len(remote.tpls) > Len(DecoyTemplates) /\ Len(remote.wsts) > Len(DecoyWorkstations)
          /\ remote.tpls[Len(remote.tpls)].budget = 5
          /\ Len(remote.opts["opt-1"].configuration) = 2
          /\ Len(remote.cpgs) <= Len(DecoyCampaigns) + 1

NextRerun == Start(MaxRuns) \/ Step

\* up to MaxRuns calls of initialize_optimization in one process
SpecRerun == InitRerun /\ [][NextRerun]_vars

\* the handle a finished initialize_optimization returned for campaign cpg-1
ActiveWrapper ==
    [ _campaign_id |-> "cpg-1", workstation |-> ExistingWorkstation,
      template |-> TemplateObject("tpl-1") ]

\* the initial states of SpecUnits: a parameter, a value, and the way round()
\* of the value itself goes when it lies halfway
InitUnits ==
    /\ spec_file_content \in SpecFileContents
    /\ spec_file_content.budget = 3 /\ spec_file_content.constraints = <<>>
    /\ Len(spec_file_content.objectives) = 1
    /\ ~spec_file_content.inherit_data /\ ~spec_file_content.always_restart
    /\ CFG = NoCFG
    /\ remote \in InitialRemotes
    /\ remote.tpls = DecoyTemplates /\ remote.wsts = DecoyWorkstations
    /\ wrapper = NoObj
    /\ pc = "idle"
    /\ locals = NoLocals
    /\ calls = <<>>
    /\ results = <<>>
    /\ start = remote
    /\ fetch = NoFetch
    /\ fetches = <<>>
    /\ inits = <<>>
    /\ os = BareOs
    /\ submits = <<>>
    /\ \/ \E input \in UnitInputs, val_up \in BOOLEAN :
            units = [prm |-> input.prm, val |-> input.val, val_up |-> val_up, done |-> {}]
       \/ \E input \in CategoricalInputs :
            units = [prm |-> input.prm, val |-> input.val, val_up |-> FALSE, done |-> {}]

NextUnits == BaseExponent \/ RescaleUnitsToSdlabs \/ RescaleUnitsToUser \/ RoundTrip

\* the normalizer of one parameter applied to one value
SpecUnits == InitUnits /\ [][NextUnits]_vars

\* the initial states of SpecConfig: the caller holds one configuration, as a
\* mapping and as the content of its file, in a fresh process
InitConfig ==
    /\ spec_file_content \in ConfigContents
    /\ os \in Oss(spec_file_content)
    /\ CFG = NoCFG
    /\ remote \in InitialRemotes
    /\ remote.tpls = DecoyTemplates /\ remote.wsts = DecoyWorkstations
    /\ wrapper = NoObj
    /\ pc = "idle"
    /\ locals = NoLocals
    /\ calls = <<>>
    /\ results = <<>>
    /\ start = remote
    /\ fetch = NoFetch
    /\ fetches = <<>>
    /\ inits = <<>>
    /\ units = NoUnits
    /\ submits = <<>>

\* the caller calls initialize_optimization once, with its mapping
StartConfig ==
    /\ Len(results) = 0 /\ pc = "idle"
    /\ \E api_key \in ApiKeys :
         InitializeOptimization(api_key, None, spec_file_content, <<>>, <<>>)

NextConfig == ConfigInit \/ StartConfig \/ WorkstationsList

\* config.init, called by the caller and by initialize_optimization, up to
\* the first remote call
SpecConfig == InitConfig /\ [][NextConfig]_vars

\* the sleep_time_s a caller passes to get_new_suggestions
SleepTimes == {0, 30}

\* the initial states of SpecFetch: the configuration is built, the caller
\* holds a wrapper, either one that provisioned campaign cpg-1 or one
\* constructed without running _start_optimization
InitFetch ==
    /\ spec_file_content \in
          { [c EXCEPT !.parameters = ps] :
              c \in {c \in SpecFileContents : c.constraints = <<>> /\ c.budget = 3
                                               /\ Len(c.objectives) = 1
                                               /\ ~c.always_restart /\ ~c.inherit_data},
              ps \in ParameterLists \cup
                       {[ConfigParameters EXCEPT ![1] = ScaledParameter,
                                                 ![MaxParameters] = CategoricalParameter]} }
    /\ CFG = OptimizationConfig(None, spec_file_content, None, BareOs)
    /\ remote \in { r \in InitialRemotes :
                      /\ Len(r.wsts) > Len(DecoyWorkstations)
                      /\ Len(r.tpls) > Len(DecoyTemplates)
                      /\ Len(r.cpgs) = Len(DecoyCampaigns) + 1
                      /\ r.cpgs[Len(r.cpgs)].state = "running"
                      /\ r.tpls[Len(r.tpls)].budget = 3
                      /\ Len(r.opts["opt-1"].configuration) = 2 }
    /\ wrapper \in {ActiveWrapper, NewWrapper}
    /\ pc = "ready"
    /\ locals = NoLocals
    /\ calls = <<>>
    /\ results = <<>>
    /\ start = remote
    /\ fetch = NoFetch
    /\ fetches = <<>>
    /\ inits = <<>>
    /\ os = BareOs
    /\ units = NoUnits
    /\ submits = <<>>

\* the caller calls get_new_suggestions, once
Fetch ==
    /\ Len(fetches) = 0
    /\ \E max_retries \in 0..MaxRetries, sleep_time_s \in SleepTimes :
         GetNewSuggestions(max_retries, sleep_time_s)

\* the caller calls send_measurements, once
Submit ==
    /\ Len(submits) = 0
    /\ \E completed_recommendations \in CompletedRecommendations(CFG) :
         SendMeasurements(completed_recommendations)

NextFetch == Fetch \/ LatestParameters \/ Submit

\* one call of get_new_suggestions and one of send_measurements on a handle
SpecFetch == InitFetch /\ [][NextFetch]_vars

----------------------------------------------------------------------------
(* Vocabulary of the properties *)

\* the number of the initialize_optimization call in progress or last finished
ThisRun == IF pc \in {"idle", "done", "raised"} THEN Len(results) ELSE Len(results) + 1

\* the remote calls of one initialize_optimization call, in order
RunCalls(r) == SelectSeq(calls, LAMBDA c : c.run = r)

\* the calls of one run with an operation among ops
RunOps(r, ops) == SelectSeq(RunCalls(r), LAMBDA c : c.op \in ops)

WorkstationOps == {"workstations_list", "workstation_get", "parameter_create", "workstation_create"}

TemplateOps ==
    {"templates_list", "template_get", "template_update", "optimizer_update", "parameter_copy",
     "optimizer_create", "objective_create", "mof_create", "constraint_create_many",
     "template_create"}

CampaignOps == {"campaigns_state", "campaign_operation", "template_run"}

CreationOps ==
    {"workstation_create", "template_create", "parameter_create", "parameter_copy",
     "objective_create", "mof_create", "constraint_create_many", "optimizer_create"}

\* workstation phase 1, template phase 2, campaign phase 3
Phase(op) == IF op \in WorkstationOps THEN 1 ELSE IF op \in TemplateOps THEN 2 ELSE 3

\* within every run the calls are ordered by phase
PhasesInOrder ==
    \A i \in 1..Len(calls), j \in 1..Len(calls) :
        (i < j /\ calls[i].run = calls[j].run) => Phase(calls[i].op) <= Phase(calls[j].op)

\* every remote call of run r succeeded
AllCallsSucceeded(r) == \A i \in 1..Len(calls) : calls[i].run = r => calls[i].ok

\* run r returned a handle that holds a campaign id
ReturnedActive(r) == results[r].outcome = "returned" /\ results[r]._campaign_id # None

----------------------------------------------------------------------------
(* C1 *)

----------------------------------------------------------------------------
(* C2 *)

\* when the run began, the configured group held a workstation named
\* optimization_name and a template named "<that name> Optimization Template"
ReusableAtStart ==
    /\ CFG # NoCFG
    /\ \E i \in 1..Len(start.wsts) :
          /\ start.wsts[i].group = CFG.sdlabs_group_id
          /\ start.wsts[i].name = CFG.optimization_name
    /\ \E i \in 1..Len(start.tpls) :
          /\ start.tpls[i].group = CFG.sdlabs_group_id
          /\ start.tpls[i].name = CFG.optimization_name \o " Optimization Template"

\* C2: a run that began with the workstation and the template present in the
\* configured group issues no creation call: no workstation_create,
\* template_create, parameter_create, parameter_copy, objective_create,
\* mof_create, constraint_create_many or optimizer_create.
C2_ProvisioningReuse == ReusableAtStart => RunOps(ThisRun, CreationOps) = <<>>

\* a run that reused both and returned
C2_Witness ==
    /\ ReusableAtStart
    /\ pc = "done"
    /\ RunOps(ThisRun, {"workstation_get"}) # <<>>
    /\ RunOps(ThisRun, {"optimizer_update"}) # <<>>

----------------------------------------------------------------------------
(* C3 *)

\* the successful calls of an operation, over all runs
Succeeded(op) == SelectSeq(calls, LAMBDA c : c.op = op /\ c.ok)

\* C3: with always_restart false, the runs of one process create the
\* workstation, the template and the campaign at most once in total, and a run
\* that returns after a run that launched a campaign holds that campaign's id.
C3_Idempotent ==
    (CFG # NoCFG /\ ~CFG.always_restart) =>
        /\ Len(Succeeded("workstation_create")) <= 1
        /\ Len(Succeeded("template_create")) <= 1
        /\ Len(Succeeded("template_run")) <= 1
        /\ \A r1 \in 1..Len(results), r2 \in 1..Len(results) :
              ( /\ r1 < r2
                /\ results[r1].outcome = "returned"
                /\ results[r2].outcome = "returned"
                /\ RunOps(r1, {"template_run"}) # <<>> )
              => results[r2]._campaign_id = results[r1]._campaign_id

\* two runs returned, the first created everything, always_restart is false
C3_Witness ==
    /\ Len(results) >= 2
    /\ ~CFG.always_restart
    /\ results[1].outcome = "returned"
    /\ results[2].outcome = "returned"
    /\ RunOps(1, {"workstation_create"}) # <<>>
    /\ RunOps(1, {"template_create"}) # <<>>
    /\ RunOps(1, {"template_run"}) # <<>>
    /\ RunOps(2, {"campaigns_state"}) # <<>>

----------------------------------------------------------------------------
(* C4, C5, C6 *)

\* the successful campaigns_state call of the run, if any
StateQuery == SelectSeq(RunCalls(ThisRun), LAMBDA c : c.op = "campaigns_state" /\ c.ok)

\* the ids of the campaigns the query reported as running
ReportedRunning ==
    UNION { { StateQuery[1].ret[i].campaigns[j].id : j \in 1..Len(StateQuery[1].ret[i].campaigns) }
            : i \in { i \in 1..Len(StateQuery[1].ret) : StateQuery[1].ret[i].state = "running" } }

Stops == RunOps(ThisRun, {"campaign_operation"})
Launches == RunOps(ThisRun, {"template_run"})

\* C4: when the query reported a running campaign and always_restart is false,
\* the run issues no stop and no launch and returns a handle whose campaign id
\* is the id of a campaign reported as running.
C4_Adoption ==
    (StateQuery # <<>> /\ ReportedRunning # {} /\ ~CFG.always_restart) =>
        /\ Stops = <<>>
        /\ Launches = <<>>
        /\ pc = "done"
        /\ results[Len(results)].outcome = "returned"
        /\ results[Len(results)]._campaign_id \in ReportedRunning

\* a run that adopted one of two campaigns reported as running
C4_Witness ==
    /\ StateQuery # <<>>
    /\ Cardinality(ReportedRunning) >= 2
    /\ ~CFG.always_restart
    /\ pc = "done"

\* C5: when the query reported running campaigns and always_restart is true,
\* only reported campaigns are stopped, a launch is issued only after every one
\* of them has been stopped, at most one launch is issued, and a run that
\* returns has launched exactly one campaign, whose id the handle holds and
\* which is none of the stopped campaigns.
C5_Restart ==
    (StateQuery # <<>> /\ ReportedRunning # {} /\ CFG.always_restart) =>
        /\ \A i \in 1..Len(Stops) :
              Stops[i].arg.campaign_id \in ReportedRunning /\ Stops[i].arg.operation = "stop"
        /\ Launches # <<>> =>
              /\ { Stops[i].arg.campaign_id : i \in {i \in 1..Len(Stops) : Stops[i].ok} }
                    = ReportedRunning
              /\ RunCalls(ThisRun)[Len(RunCalls(ThisRun))].op = "template_run"
        /\ Len(Launches) <= 1
        /\ pc = "done" =>
              /\ Len(Launches) = 1
              /\ results[Len(results)].outcome = "returned"
              /\ results[Len(results)]._campaign_id = Launches[1].ret
              /\ results[Len(results)]._campaign_id \notin ReportedRunning

\* a restart that stopped two campaigns and launched a new one
C5_Witness ==
    /\ StateQuery # <<>>
    /\ Cardinality(ReportedRunning) >= 2
    /\ CFG.always_restart
    /\ pc = "done"
    /\ Len(Stops) >= 2

\* C6: when the query reported no running campaign, no stop is issued, exactly
\* one launch call is issued, its preload flag is the configuration's
\* inherit_data, and a run that returns holds the id that launch returned.
C6_Launch ==
    (StateQuery # <<>> /\ ReportedRunning = {}) =>
        /\ Stops = <<>>
        /\ Len(Launches) = (IF pc = "template_run" THEN 0 ELSE 1)
        /\ \A i \in 1..Len(Launches) :
              Launches[i].arg.template_run_obj.preload_data = CFG.inherit_data
        /\ pc = "done" =>
              /\ results[Len(results)].outcome = "returned"
              /\ results[Len(results)]._campaign_id = Launches[1].ret

\* a launch with preload requested, and one without
C6_Witness ==
    /\ StateQuery # <<>>
    /\ ReportedRunning = {}
    /\ pc = "done"
    /\ CFG.inherit_data
    /\ Launches # <<>>

----------------------------------------------------------------------------
(* C7, C8 *)

\* the successful template_get call of the run, if any: the template-reuse path
TemplateFetch == SelectSeq(RunCalls(ThisRun), LAMBDA c : c.op = "template_get" /\ c.ok)

\* the template the run fetched, as the remote service held it when the run began
RemoteTemplate ==
    start.tpls[CHOOSE i \in 1..Len(start.tpls) : start.tpls[i].id = TemplateFetch[1].arg]

TemplateUpdates == RunOps(ThisRun, {"template_update"})
OptimizerUpdates == RunOps(ThisRun, {"optimizer_update"})

\* C7: on the template-reuse path, once the run is past the comparison, it has
\* issued one template_update call if the configured budget differs from the
\* remote template's budget and none if they are equal; the call is made on the
\* fetched template and its payload carries the configured budget.
C7_BudgetUpdate ==
    TemplateFetch # <<>> =>
        /\ Len(TemplateUpdates) =
              (IF CFG.budget # RemoteTemplate.budget /\ pc # "template_update" THEN 1 ELSE 0)
        /\ \A i \in 1..Len(TemplateUpdates) :
              /\ TemplateUpdates[i].arg.template_id = RemoteTemplate.id
              /\ TemplateUpdates[i].arg.template_obj.budget = CFG.budget

\* a run that lowered the remote budget, and one that left an equal budget alone
C7_Witness ==
    /\ TemplateFetch # <<>>
    /\ pc = "done"
    /\ CFG.budget < RemoteTemplate.budget
    /\ Len(TemplateUpdates) = 1
    /\ TemplateUpdates[1].ok

\* the run has come to the optimizer update
OptimizerUpdateReached ==
    /\ pc \notin {"template_update", "optimizer_update"}
    /\ ~(pc = "raised" /\ calls[Len(calls)].op = "template_update")

\* the configuration of the fetched template's optimizer when the run began
RemoteConfiguration == start.opts[RemoteTemplate.optimizer].configuration

\* C8: on the template-reuse path, a run that comes to the optimizer update
\* issues exactly one optimizer_update call, whatever the remote values are; its
\* payload holds the remote entries in order, those of key batch_size or
\* random_seed with the configured value (as a string), the others unchanged.
C8_OptimizerUpdate ==
    TemplateFetch # <<>> =>
        /\ Len(OptimizerUpdates) = (IF OptimizerUpdateReached THEN 1 ELSE 0)
        /\ \A i \in 1..Len(OptimizerUpdates) :
              LET sent == OptimizerUpdates[i].arg.opt_obj.configuration IN
              /\ OptimizerUpdates[i].arg.optimizer_id = RemoteTemplate.optimizer
              /\ Len(sent) = Len(RemoteConfiguration)
              /\ \A k \in 1..Len(sent) :
                    /\ sent[k].key = RemoteConfiguration[k].key
                    /\ sent[k].value =
                          (IF sent[k].key = "batch_size" THEN ToString(CFG.batch_size)
                           ELSE IF sent[k].key = "random_seed" THEN ToString(CFG.random_seed)
                           ELSE RemoteConfiguration[k].value)

\* an update of an optimizer that already held the configured values, and one
\* of an optimizer with other values and an entry of another key
C8_Witness ==
    /\ TemplateFetch # <<>>
    /\ pc = "done"
    /\ Len(OptimizerUpdates) = 1
    /\ Len(RemoteConfiguration) = 3
    /\ RemoteConfiguration[1].value # ToString(CFG.batch_size)

----------------------------------------------------------------------------
(* C9 *)

\* every workstation and template a successful creation call returned is still
\* held by the remote service
NothingRolledBack ==
    /\ \A i \in 1..Len(Succeeded("workstation_create")) :
          \E k \in 1..Len(remote.wsts) : remote.wsts[k].id = Succeeded("workstation_create")[i].ret
    /\ \A i \in 1..Len(Succeeded("template_create")) :
          \E k \in 1..Len(remote.tpls) : remote.tpls[k].id = Succeeded("template_create")[i].ret

\* C9: a failed remote call is the last call of its run (it is not retried and
\* nothing is called after it, no delete or rollback either), the run has ended
\* with the error raised and no handle returned, and what the run created
\* before is still there.
C9_FailurePropagates ==
    /\ \A i \in 1..Len(calls) :
          ~calls[i].ok =>
              /\ i < Len(calls) => calls[i + 1].run > calls[i].run
              /\ Len(results) >= calls[i].run
              /\ results[calls[i].run] = Raised("remote")
    /\ \A i \in 1..Len(calls) : calls[i].op \in WorkstationOps \cup TemplateOps \cup CampaignOps
    /\ NothingRolledBack

\* a run that failed at template_create, after it had created the workstation
C9_Witness ==
    /\ pc = "raised"
    /\ calls # <<>>
    /\ ~calls[Len(calls)].ok
    /\ calls[Len(calls)].op = "template_create"
    /\ RunOps(ThisRun, {"workstation_create"}) # <<>>

----------------------------------------------------------------------------
(* C10: the polling loop of get_new_suggestions *)

\* the latest_parameters calls of the r-th get_new_suggestions call, in order
Polls(r) == SelectSeq(calls, LAMBDA c : c.op = "latest_parameters" /\ c.run = r)

\* an answered poll that carried no record / at least one record
EmptyPoll(c) == c.ok /\ c.ret = <<>>
NonEmptyPoll(c) == c.ok /\ c.ret # <<>>

\* C10: on a handle with an active campaign id, get_new_suggestions polls at
\* most max_retries times and never after a non-empty response; a call whose
\* last poll was non-empty returns one Recommendation per record of that
\* response, in the same order; a call whose polls were all empty has polled
\* exactly max_retries times and raises the no-recommendations error, and no
\* call returns an empty list.
C10_Polling ==
    wrapper # NoObj /\ wrapper._campaign_id # None =>
      /\ pc = "latest_parameters" =>
            /\ Len(Polls(Len(fetches) + 1)) < fetch.max_retries
            /\ \A i \in DOMAIN Polls(Len(fetches) + 1) : EmptyPoll(Polls(Len(fetches) + 1)[i])
      /\ \A r \in DOMAIN fetches :
            LET f == fetches[r]
                P == Polls(r)
            IN /\ Len(P) <= f.max_retries
               /\ \A i \in 1..(Len(P) - 1) : EmptyPoll(P[i])
               /\ (P # <<>> /\ NonEmptyPoll(P[Len(P)])) =>
                     /\ f.outcome = "returned"
                     /\ Len(f.recommendations) = Len(P[Len(P)].ret)
                     /\ \A i \in DOMAIN f.recommendations :
                           f.recommendations[i]._obs_obj = P[Len(P)].ret[i]
               /\ (\A i \in DOMAIN P : EmptyPoll(P[i])) =>
                     /\ Len(P) = f.max_retries
                     /\ f.outcome = "raised"
                     /\ f.error = "ValueError: no recommendations"
               /\ f.outcome = "returned" => f.recommendations # <<>>

\* a call that met an empty poll and then a response of two records returned
\* two recommendations
C10_Witness ==
    /\ wrapper # NoObj /\ wrapper._campaign_id # None
    /\ \E r \in DOMAIN fetches :
         /\ fetches[r].outcome = "returned"
         /\ Len(fetches[r].recommendations) = 2
         /\ Len(Polls(r)) >= 2
         /\ fetches[r].max_retries > Len(Polls(r))

----------------------------------------------------------------------------
(* C11: get_new_suggestions on a handle without a campaign id *)

\* C11: on a handle that has no campaign id, every get_new_suggestions call
\* has raised the usage error without polling and without sleeping: no
\* latest_parameters call was issued and no call is inside the polling loop.
C11_UsageError ==
    wrapper # NoObj /\ wrapper._campaign_id = None =>
      /\ pc # "latest_parameters"
      /\ \A i \in DOMAIN calls : calls[i].op # "latest_parameters"
      /\ \A r \in DOMAIN fetches :
            /\ fetches[r].outcome = "raised"
            /\ fetches[r].error = "ValueError: not initialized"
            /\ fetches[r].slept = 0

\* a get_new_suggestions call with max_retries > 0 and a positive sleep time
\* on a handle without a campaign id has ended
C11_Witness ==
    /\ wrapper # NoObj /\ wrapper._campaign_id = None
    /\ \E r \in DOMAIN fetches :
         /\ fetches[r].max_retries > 0
         /\ fetches[r].sleep_time_s > 0
         /\ fetches[r].outcome = "raised"

----------------------------------------------------------------------------
(* C12, C13: send_measurements *)

\* the latest_measurements calls of the r-th send_measurements call, in order
Submissions(r) == SelectSeq(calls, LAMBDA c : c.op = "latest_measurements" /\ c.run = r)

\* C12 as stated: on a handle that has no campaign id, send_measurements
\* submits nothing to the remote service and ends with an error raised.
C12_AsStated ==
    wrapper # NoObj /\ wrapper._campaign_id = None =>
      /\ \A i \in DOMAIN calls : calls[i].op # "latest_measurements"
      /\ \A r \in DOMAIN submits : submits[r].outcome = "raised"

----------------------------------------------------------------------------
(* C14, C15, C16: the normalizer *)

\* the defining bound of a parameter: low, else stride, else high
DefiningBound(prm) ==
    IF prm.low_value # NoObj /\ prm.low_value.m # 0 THEN prm.low_value
    ELSE IF prm.stride # NoObj /\ prm.stride.m # 0 THEN prm.stride
    ELSE prm.high_value

\* floor(log10(|b|)) = d, as 10^d <= |b| < 10^(d+1)
InDecade(b, d) ==
    LET a == [m |-> Abs(b.m), e |-> b.e]
    IN  Leq(Dec(1, d), a) /\ ~Leq(Dec(1, d + 1), a)

\* floor(log10(|b|)) >= 0 for the defining bound b of a numeric parameter
AtLeastOne(prm) ==
    LET b == DefiningBound(prm)
    IN  Leq(Dec(1, 0), [m |-> Abs(b.m), e |-> b.e])

\* r is x rounded to n decimals: a multiple of 10^-n at most half of 10^-n
\* away from x
IsRounded(x, r, n) ==
    /\ r.e >= -n
    /\ LET c == IF x.e < -n THEN x.e ELSE -n
       IN  2 * Abs(r.m * Pow10(r.e - c) - x.m * Pow10(x.e - c)) <= Pow10(-n - c)

\* a numeric parameter and a value were given to the normalizer
Numeric == units.prm # NoObj /\ units.prm.type # "categorical"

\* C14 as stated: for every non-categorical parameter whose defining bound b
\* has floor(log10(|b|)) = -k with k > 0, the scale exponent is k and
\* rescale_units_to_sdlabs(v) is v * 10^k rounded to 2 decimals.
C14_AsStated ==
    Numeric =>
      \A k \in 1..MaxDecade :
         InDecade(DefiningBound(units.prm), -k) =>
            /\ "exponent" \in units.done => units.exponent = k
            /\ "sdlabs" \in units.done => IsRounded(Scale10(units.val, k), units.sdlabs, 2)

\* C14: for every non-categorical parameter whose defining bound b has
\* floor(log10(|b|)) = -k: when k > 4, the scale exponent is k and
\* rescale_units_to_sdlabs(v) is v * 10^k rounded to 2 decimals; when
\* 1 <= k <= 4, there is no scale exponent and rescale_units_to_sdlabs(v) is v.
C14_Scaled ==
    Numeric =>
      \A k \in 1..MaxDecade :
         InDecade(DefiningBound(units.prm), -k) =>
            /\ "exponent" \in units.done =>
                  units.exponent = (IF k > 4 THEN k ELSE NoExponent)
            /\ "sdlabs" \in units.done =>
                  IF k > 4 THEN IsRounded(Scale10(units.val, k), units.sdlabs, 2)
                  ELSE units.sdlabs = units.val

\* a parameter whose defining bound lies in the decade of 10^-5 or below had
\* its exponent read, and a value of it that needs rounding was rescaled
C14_Witness ==
    /\ Numeric
    /\ {"exponent", "sdlabs"} \subseteq units.done
    /\ \E k \in 5..MaxDecade : InDecade(DefiningBound(units.prm), -k) /\ units.exponent = k
    /\ units.sdlabs # Scale10(units.val, units.exponent)

\* C15: for a categorical parameter, and for a non-categorical parameter whose
\* defining bound b has floor(log10(|b|)) >= 0, there is no scale exponent and
\* rescale_units_to_sdlabs and rescale_units_to_user both return their input.
C15_Identity ==
    units.prm # NoObj /\ (units.prm.type = "categorical" \/ AtLeastOne(units.prm)) =>
         /\ "exponent" \in units.done => units.exponent = NoExponent
         /\ "sdlabs" \in units.done => units.sdlabs = units.val
         /\ "user" \in units.done => units.user = units.val

\* a value with more than two decimals went through both conversions of a
\* numeric parameter whose defining bound is 1 or more
C15_Witness ==
    /\ Numeric
    /\ AtLeastOne(units.prm)
    /\ {"exponent", "sdlabs", "user"} \subseteq units.done
    /\ units.val.e < -2

\* C16 as stated: for a non-categorical parameter with scale exponent k and
\* an in-range value v, rescale_units_to_user(rescale_units_to_sdlabs(v)) is
\* round(v, k + 2).
C16_AsStated ==
    Numeric /\ "back" \in units.done /\ InRange(units.prm, units.val)
            /\ ~NotExponent(base_10_exponent(units.prm)) =>
      units.back = round(units.val, base_10_exponent(units.prm) + 2, units.val_up)

\* C16: for a non-categorical parameter with scale exponent k and an in-range
\* value v, rescale_units_to_user(rescale_units_to_sdlabs(v)) is a multiple
\* of 10^-(k+2) at most half of 10^-(k+2) away from v: v rounded to k + 2
\* decimals, or, when v lies halfway between two such multiples, either of them.
C16_RoundTrip ==
    Numeric /\ "back" \in units.done /\ InRange(units.prm, units.val) =>
      \A k \in 1..MaxDecade :
         InDecade(DefiningBound(units.prm), -k) /\ k > 4 =>
            IsRounded(units.val, units.back, k + 2)

\* an in-range value halfway between two multiples of 10^-(k+2) came back as
\* the one that round(v, k + 2) does not yield
C16_Witness ==
    /\ Numeric /\ "back" \in units.done /\ InRange(units.prm, units.val)
    /\ ~NotExponent(base_10_exponent(units.prm))
    /\ units.back # round(units.val, base_10_exponent(units.prm) + 2, units.val_up)
    /\ IsRounded(units.val, units.back, base_10_exponent(units.prm) + 2)

----------------------------------------------------------------------------
(* C17, C18, C19, C20: the construction of the configuration *)

\* C21 as stated: every bound of every constraint definition of a built
\* configuration is a string.
C21_AsStated ==
    \A i \in DOMAIN inits :
       ~IsFailed(inits[i].ret) =>
          \A c \in DOMAIN inits[i].ret.constraints :
             \A d \in DOMAIN inits[i].ret.constraints[c].definitions :
                LET bounds == Get(inits[i].ret.constraints[c].definitions[d], "bounds", <<>>)
                IN  \A m \in DOMAIN bounds : \A n \in DOMAIN bounds[m] : IsStr(bounds[m][n])

\* the i-th config.init call found no cached instance and built one
Built(i) == inits[i].cached = NoCFG /\ ~IsFailed(inits[i].ret)

\* the mapping the i-th config.init call reads, when it builds: the
\* config_dict it was given, else the content of the file
Content(i) == IF inits[i].config_dict # NoObj THEN inits[i].config_dict ELSE os.content

\* exactly one of relative and absolute is set
OneTolerance(moc) == (moc.relative = NoObj) # (moc.absolute = NoObj)

\* C17 as stated: a configuration is built only if every
\* multi_objective_configuration of its objectives sets exactly one of
\* relative and absolute (the construction of one that sets both, or neither,
\* fails), and one that sets exactly one does not make the construction fail.
C17_AsStated ==
    \A i \in DOMAIN inits :
       /\ Built(i) =>
            \A n \in DOMAIN inits[i].ret.objectives :
               LET moc == inits[i].ret.objectives[n].multi_objective_configuration
               IN  moc # NoObj => OneTolerance(moc)
       /\ ( /\ inits[i].cached = NoCFG /\ inits[i].config_dict # NoObj
            /\ \E n \in DOMAIN inits[i].config_dict.objectives :
                  LET obj == inits[i].config_dict.objectives[n] IN
                    /\ "multi_objective_configuration" \in DOMAIN obj
                    /\ ("relative" \in DOMAIN obj.multi_objective_configuration)
                         # ("absolute" \in DOMAIN obj.multi_objective_configuration) )
          => ~IsFailed(inits[i].ret)

\* a batch_size outside 1..20, a parameter kind or a constraint type outside
\* the allowed ones
Invalid(content) ==
    \/ content.batch_size \notin 1..20
    \/ \E n \in DOMAIN content.parameters :
          content.parameters[n].type \notin {"continuous", "discrete", "categorical"}
    \/ \E n \in DOMAIN content.constraints :
          Get(content.constraints[n], "type", "linear_eq") \notin
             {"exclusion", "conditional_exclusion", "linear_eq", "linear_lte", "linear_gte", "linear_between"}

\* C18 as stated: the construction of a configuration with a batch_size
\* outside 1..20, a parameter kind or a constraint type outside the allowed
\* ones fails, and no remote call is issued under such a configuration.
C18_AsStated ==
    /\ \A i \in DOMAIN inits :
          inits[i].cached = NoCFG /\ inits[i].config_dict # NoObj /\ Invalid(inits[i].config_dict)
             => IsFailed(inits[i].ret)
    /\ CFG # NoCFG /\ Invalid(CFG) => calls = <<>>

\* C19 as stated: the api_key of a configuration that was built is the
\* api_key argument when one was passed, else the api_key of the mapping or
\* file content when it holds one, else SDLABS_API_KEY of the environment,
\* else none.
C19_AsStated ==
    \A i \in DOMAIN inits :
       Built(i) =>
          inits[i].ret.api_key =
             IF inits[i].api_key # None THEN inits[i].api_key
             ELSE IF Get(Content(i), "api_key", None) # None THEN Content(i).api_key
             ELSE os.environ.SDLABS_API_KEY

\* C20: a config.init call that finds a cached instance returns it and leaves
\* config.CFG as it was, whatever its arguments; every call after the first
\* build returns what that build returned, and config.CFG still holds it.
C20_Singleton ==
    /\ \A i \in DOMAIN inits :
          inits[i].cached # NoCFG =>
             inits[i].ret = inits[i].cached /\ inits[i].after = inits[i].cached
    /\ \A i, j \in DOMAIN inits :
          Built(i) /\ i < j => inits[j].ret = inits[i].ret /\ CFG = inits[i].ret

\* a configuration was built without any api_key, and a later config.init
\* call passed an api_key, and other arguments than the first
C20_Witness ==
    \E i, j \in DOMAIN inits :
       /\ i < j /\ Built(i)
       /\ inits[i].api_key = None /\ inits[i].ret.api_key = None
       /\ inits[j].api_key = "key-arg"
       /\ inits[j].config_path # inits[i].config_path
       /\ (inits[j].config_dict = NoObj) # (inits[i].config_dict = NoObj)

----------------------------------------------------------------------------
(* C22: fresh provisioning *)

\* when the run began, the configured group held no workstation named
\* optimization_name and no template named after it
FreshAtStart ==
    /\ CFG # NoCFG
    /\ \A i \in 1..Len(start.wsts) :
          ~(start.wsts[i].group = CFG.sdlabs_group_id /\ start.wsts[i].name = CFG.optimization_name)
    /\ \A i \in 1..Len(start.tpls) :
          ~(start.tpls[i].group = CFG.sdlabs_group_id
            /\ start.tpls[i].name = CFG.optimization_name \o " Optimization Template")

\* in run r every call with an operation of `before` precedes every call with
\* an operation of `after`
Precede(r, before, after) ==
    \A i, j \in 1..Len(calls) :
       calls[i].run = r /\ calls[j].run = r /\ calls[i].op \in before /\ calls[j].op \in after
          => i < j

\* C22: a run that began with neither the workstation nor the template present
\* and that returned has issued one parameter_create per configured parameter,
\* in configuration order, then one workstation_create whose parameters are the
\* ids those calls returned, in order, and whose measurements are the names of
\* the configured objectives, then one template_create, then one template_run.
C22_FreshProvisioning ==
    FreshAtStart /\ pc = "done" =>
       LET creates  == RunOps(ThisRun, {"parameter_create"})
           stations == RunOps(ThisRun, {"workstation_create"})
       IN  /\ Len(creates) = Len(CFG.parameters)
           /\ \A n \in DOMAIN creates : creates[n].arg.name = CFG.parameters[n].name
           /\ Len(stations) = 1
           /\ stations[1].arg.parameters = [n \in 1..Len(creates) |-> creates[n].ret]
           /\ stations[1].arg.measurements =
                 [n \in 1..Len(CFG.objectives) |-> CFG.objectives[n].name]
           /\ Len(RunOps(ThisRun, {"template_create"})) = 1
           /\ Len(RunOps(ThisRun, {"template_run"})) = 1
           /\ Precede(ThisRun, {"parameter_create"}, {"workstation_create"})
           /\ Precede(ThisRun, {"workstation_create"}, {"template_create"})
           /\ Precede(ThisRun, {"template_create"}, {"template_run"})

\* a fresh run over two parameters and two objectives returned
C22_Witness ==
    /\ FreshAtStart /\ pc = "done"
    /\ Len(CFG.parameters) >= 2 /\ Len(CFG.objectives) = 2
    /\ Len(RunOps(ThisRun, {"workstation_create"})) = 1

----------------------------------------------------------------------------
(* C23: the bounds sent for a parameter *)

\* the configured parameter of the given name
Configured(name) == FirstOr(CFG.parameters, LAMBDA prm : prm.name = name, NoObj)

\* the parameter_create calls issued for numeric parameters
NumericCreates ==
    { i \in 1..Len(calls) :
        calls[i].op = "parameter_create" /\ Configured(calls[i].arg.name).type # "categorical" }

\* C23 as stated: the low and high values sent for a parameter whose defining
\* bound b has floor(log10(|b|)) = -k with k > 0 are the configured values
\* times 10^k (low 0.001, high 0.01: 1.0 and 10.0); those of a parameter whose
\* defining bound is 1 or more are the configured values.
C23_AsStated ==
    \A i \in NumericCreates :
       LET prm == Configured(calls[i].arg.name) IN
         /\ \A k \in 1..MaxDecade :
               InDecade(DefiningBound(prm), -k) =>
                  /\ IsRounded(Scale10(prm.low_value, k), calls[i].arg.low_value, 2)
                  /\ IsRounded(Scale10(prm.high_value, k), calls[i].arg.high_value, 2)
         /\ AtLeastOne(prm) =>
               /\ calls[i].arg.low_value = prm.low_value
               /\ calls[i].arg.high_value = prm.high_value

\* C23: the low and high values sent for a parameter whose defining bound b
\* has floor(log10(|b|)) = -k are the configured values times 10^k, rounded to
\* 2 decimals, when k > 4 (low 0.00001, high 0.0001: 1.0 and 10.0), and the
\* configured values themselves when k <= 4 (low 0.001, high 0.01) or when the
\* bound is 1 or more (low 5, high 50).
C23_RemoteBounds ==
    \A i \in NumericCreates :
       LET prm == Configured(calls[i].arg.name) IN
         /\ \A k \in 1..MaxDecade :
               InDecade(DefiningBound(prm), -k) =>
                  IF k > 4
                  THEN /\ IsRounded(Scale10(prm.low_value, k), calls[i].arg.low_value, 2)
                       /\ IsRounded(Scale10(prm.high_value, k), calls[i].arg.high_value, 2)
                  ELSE /\ calls[i].arg.low_value = prm.low_value
                       /\ calls[i].arg.high_value = prm.high_value
         /\ AtLeastOne(prm) =>
               /\ calls[i].arg.low_value = prm.low_value
               /\ calls[i].arg.high_value = prm.high_value

\* the parameter over [0.00001, 0.0001] was created with the bounds 1.0 and
\* 10.0, and the parameter over [5, 50] with its own bounds
C23_Witness ==
    /\ \E i \in NumericCreates :
          /\ calls[i].ok
          /\ Configured(calls[i].arg.name).low_value = Dec(1, -5)
          /\ calls[i].arg.low_value = Dec(1, 0) /\ calls[i].arg.high_value = Dec(1, 1)
    /\ \E i \in NumericCreates :
          /\ calls[i].ok
          /\ calls[i].arg.low_value = Dec(5, 0) /\ calls[i].arg.high_value = Dec(5, 1)

----------------------------------------------------------------------------
(* C24: what a provisioning run changes in the configuration *)

\* what the user declared: everything but the remote ids of the objectives
UserContent(cfg) ==
    [ parameters |-> cfg.parameters, constraints |-> cfg.constraints, budget |-> cfg.budget,
      batch_size |-> cfg.batch_size, random_seed |-> cfg.random_seed,
      always_restart |-> cfg.always_restart, inherit_data |-> cfg.inherit_data ]

\* C24 as stated: no step of _start_optimization changes the parameters, the
\* constraints, budget, batch_size, random_seed or the flags of the
\* configuration.
C24_AsStated ==
    [][pc \notin {"idle", "done", "raised"} => UserContent(CFG') = UserContent(CFG)]_vars

----------------------------------------------------------------------------
(* C25: objectives and the multi-objective function *)

\* the id returned in run r by the objective_create of the given name
CreatedObjective(r, name) ==
    FirstOr(RunOps(r, {"objective_create"}), LAMBDA c : c.arg.name = name, [ret |-> None]).ret

\* C25: a run that issues template_create has issued one objective_create per
\* configured objective; with one objective the template references it and no
\* mof_create was issued; otherwise exactly one mof_create was issued, with one
\* entry per configured objective carrying the id returned by the
\* objective_create of the same name, and the template references the function
\* and no single objective.
C25_Objectives ==
    LET tpls == RunOps(ThisRun, {"template_create"})
        objs == RunOps(ThisRun, {"objective_create"})
        mofs == RunOps(ThisRun, {"mof_create"})
    IN  tpls # <<>> =>
          /\ Len(objs) = Len(CFG.objectives)
          /\ \A n \in DOMAIN objs : objs[n].ok /\ objs[n].arg.name = CFG.objectives[n].name
          /\ IF Len(CFG.objectives) = 1
             THEN /\ mofs = <<>>
                  /\ \A t \in DOMAIN tpls :
                        /\ tpls[t].arg.objective = objs[1].ret
                        /\ tpls[t].arg.multi_objective_function = None
             ELSE /\ Len(mofs) = 1
                  /\ Len(mofs[1].arg.configuration) = Len(CFG.objectives)
                  /\ \A n \in DOMAIN CFG.objectives :
                        mofs[1].arg.configuration[n].objective_id
                           = CreatedObjective(ThisRun, CFG.objectives[n].name)
                  /\ \A t \in DOMAIN tpls :
                        /\ tpls[t].arg.multi_objective_function = mofs[1].ret
                        /\ tpls[t].arg.objective = None

\* a template was created over two objectives combined by one function
C25_Witness ==
    /\ CFG # NoCFG
    /\ Len(CFG.objectives) = 2
    /\ Len(RunOps(ThisRun, {"mof_create"})) = 1
    /\ \E t \in DOMAIN RunOps(ThisRun, {"template_create"}) :
          RunOps(ThisRun, {"template_create"})[t].ok

----------------------------------------------------------------------------
(* C26: constraint definitions and the template parameters *)

\* the id returned in this run by the parameter_copy of the given name, None
\* when no copy has that name
CopyOf(name) ==
    FirstOr(RunOps(ThisRun, {"parameter_copy"}), LAMBDA c : c.ok /\ c.arg.name = name,
            [ret |-> None]).ret

\* every parameter of the workstation has its template copy
PastCopies == RunOps(ThisRun, {"optimizer_create"}) # <<>>

\* a declared constraint definition names a parameter without a template copy
UnknownParameter ==
    \E k \in DOMAIN spec_file_content.constraints :
       \E d \in DOMAIN spec_file_content.constraints[k].definitions :
          CopyOf(spec_file_content.constraints[k].definitions[d].parameter) = None

\* C26: every definition in the payload of constraint_create_many references
\* the id of the template parameter copy named as the declared definition
\* names its parameter; and a run on the template-creation path whose
\* constraints name a parameter without a copy issues no constraint, template
\* or campaign call, repeats no call, and ends with an exception.
C26_Remap ==
    /\ \A i \in DOMAIN calls :
          calls[i].run = ThisRun /\ calls[i].op = "constraint_create_many" =>
             /\ Len(calls[i].arg) = Len(spec_file_content.constraints)
             /\ \A k \in DOMAIN calls[i].arg :
                   /\ Len(calls[i].arg[k].definitions)
                         = Len(spec_file_content.constraints[k].definitions)
                   /\ \A d \in DOMAIN calls[i].arg[k].definitions :
                         /\ calls[i].arg[k].definitions[d].parameter # None
                         /\ calls[i].arg[k].definitions[d].parameter
                               = CopyOf(spec_file_content.constraints[k].definitions[d].parameter)
    /\ (PastCopies /\ UnknownParameter) =>
          /\ RunOps(ThisRun, {"constraint_create_many", "template_create", "template_run"}
                                 \cup CampaignOps) = <<>>
          /\ Len(RunOps(ThisRun, {"objective_create"})) <= Len(CFG.objectives)
          /\ Len(RunOps(ThisRun, {"mof_create"})) <= 1
          /\ pc \in {"done", "raised"} => results[Len(results)].outcome = "raised"

\* a run whose every call succeeded ended at the definition that names zz
C26_Witness ==
    /\ pc = "raised" /\ PastCopies /\ UnknownParameter
    /\ AllCallsSucceeded(ThisRun)
    /\ results[Len(results)].error = "StopIteration"

----------------------------------------------------------------------------
(* C27: the flags across the calls of one process *)

\* the launches of run r
LaunchesOf(r) == RunOps(r, {"template_run"})

\* C27: a call of initialize_optimization that finds a cached configuration
\* with inherit_data (always_restart) true provisions with the flag true,
\* whatever it passes: the configuration keeps the flag, every launch of the
\* run asks for preloading, and a run that returns under always_restart holds
\* the campaign it launched itself, never an adopted one.
C27_Sticky ==
    \A i \in 1..Len(inits) :
       inits[i].cached # NoCFG =>
          /\ inits[i].cached.inherit_data =>
                /\ i = Len(inits) => CFG.inherit_data
                /\ \A n \in DOMAIN LaunchesOf(i) :
                      LaunchesOf(i)[n].arg.template_run_obj.preload_data
          /\ inits[i].cached.always_restart =>
                /\ i = Len(inits) => CFG.always_restart
                /\ (i <= Len(results) /\ results[i].outcome = "returned") =>
                      \E n \in DOMAIN LaunchesOf(i) :
                         LaunchesOf(i)[n].ok /\ LaunchesOf(i)[n].ret = results[i]._campaign_id

\* the spec declares neither flag, the first call set both, and the second
\* call stopped the campaign of the first and launched its own with preloading
C27_Witness ==
    /\ Len(inits) = 2 /\ Len(results) = 2 /\ pc = "done"
    /\ ~spec_file_content.inherit_data /\ ~spec_file_content.always_restart
    /\ inits[2].cached # NoCFG
    /\ inits[2].cached.inherit_data /\ inits[2].cached.always_restart
    /\ results[1].outcome = "returned"
    /\ RunOps(2, {"campaign_operation"}) # <<>>
    /\ LaunchesOf(2) # <<>>

----------------------------------------------------------------------------
(* C28: from the suggestion to the submission *)

\* the record the service handed out under the given id
Suggested(id) ==
    CHOOSE obs \in {Observation(CFG, i) : i \in 1..MaxRecords} : obs.id = id

\* the number a value of a record stands for
NumberOf(value) == Float(value)

\* C28: in every record sent by send_measurements for a recommendation whose
\* param_values were left as fetched, the value of every numeric parameter,
\* scaled or not, is numerically the value the service suggested, which has at
\* most two decimals, and the value of every categorical parameter is the
\* suggested one.
C28_Preserved ==
    \A r \in DOMAIN submits :
       \A s \in DOMAIN Submissions(r) :
          \A i \in DOMAIN Submissions(r)[s].arg :
             LET sent == Submissions(r)[s].arg[i]
                 obs  == Suggested(sent.id)
             IN  /\ Len(sent.parameters) = Len(obs.parameters)
                 /\ \A j \in DOMAIN sent.parameters :
                       /\ sent.parameters[j].name = obs.parameters[j].name
                       /\ IF Configured(sent.parameters[j].name).type = "categorical"
                          THEN sent.parameters[j].value = obs.parameters[j].value
                          ELSE NumberOf(sent.parameters[j].value)
                                  = NumberOf(obs.parameters[j].value)

\* a record was sent that holds a value of a parameter with a scale exponent
\* and a value of one without, both with two decimals
C28_Witness ==
    \E r \in DOMAIN submits :
       \E i \in DOMAIN Submissions(r)[1].arg :
          LET sent == Submissions(r)[1].arg[i] IN
          /\ \E j \in DOMAIN sent.parameters :
                /\ Configured(sent.parameters[j].name).type # "categorical"
                /\ ~NotExponent(base_10_exponent(Configured(sent.parameters[j].name)))
                /\ NumberOf(sent.parameters[j].value).e = -2
          /\ \E j \in DOMAIN sent.parameters :
                /\ Configured(sent.parameters[j].name).type # "categorical"
                /\ NotExponent(base_10_exponent(Configured(sent.parameters[j].name)))
                /\ NumberOf(sent.parameters[j].value).e = -2

----------------------------------------------------------------------------
(* C29: a build that fails *)

\* the i-th config.init call found no cached instance and its build failed
FailedBuild(i) == inits[i].cached = NoCFG /\ IsFailed(inits[i].ret)

\* what a build from the arguments of the i-th config.init call alone gives
BuiltFromArguments(i) ==
    OptimizationConfig(IF inits[i].config_dict # NoObj THEN None
                       ELSE IF inits[i].config_path = None THEN DEFAULT_CONFIG_PATH
                       ELSE inits[i].config_path,
                       inits[i].config_dict, inits[i].api_key, os)

\* C29: a config.init call whose build fails leaves config.CFG unset, and the
\* call after it finds no cached instance and builds from its own arguments:
\* when they are valid, it returns and caches the instance they describe.
C29_FailedBuild ==
    \A i \in DOMAIN inits :
       FailedBuild(i) =>
          /\ inits[i].after = NoCFG
          /\ i = Len(inits) => CFG = NoCFG
          /\ i < Len(inits) =>
                /\ inits[i + 1].cached = NoCFG
                /\ inits[i + 1].ret = BuiltFromArguments(i + 1)
                /\ ~IsFailed(BuiltFromArguments(i + 1)) =>
                      /\ inits[i + 1].after = BuiltFromArguments(i + 1)
                      /\ i + 1 = Len(inits) => CFG = BuiltFromArguments(i + 1)

\* the build from a malformed mapping failed, and the next call built the
\* configuration of the file
C29_Witness ==
    \E i \in DOMAIN inits :
       /\ FailedBuild(i) /\ inits[i].config_dict # NoObj
       /\ i < Len(inits) /\ Built(i + 1)
       /\ inits[i + 1].config_dict = NoObj /\ inits[i + 1].config_path = ConfigPath
       /\ CFG = inits[i + 1].ret
       /\ CFG.batch_size = BaseContent.batch_size

====
